---- MODULE Spec2Model ----
\* Audit-and-rollback engine of snechholt/audit: the history of reverse deltas
\* kept by AuditableValues, Audit, RollbackTo and the history codec.
EXTENDS Integers, Sequences, FiniteSets, TLC

\* ---------------------------------------------------------------------------
\* Bounds of the model
\* ---------------------------------------------------------------------------

\* Longest history the Audit action may build.
MaxHistory == 3

\* Latest instant a caller passes as a timestamp (instants are integers).
MaxTime == 3

\* Number of instants modelled before Go's zero time.
BeforeZero == 1

\* ---------------------------------------------------------------------------
\* Time (time.Time): an instant and a zone offset
\* ---------------------------------------------------------------------------

\* The instant of time.Time{} (January 1, year 1, UTC).
ZeroInstant == 0

UTC(n) == [at |-> n, offset |-> 0]

ZeroTime == UTC(ZeroInstant)

TimeIsZero(t) == t.at = ZeroInstant

TimeBefore(t, u) == t.at < u.at

TimeAfter(t, u) == t.at > u.at

TimeEqual(t, u) == t.at = u.at

Instants == (0 - BeforeZero)..MaxTime

Times == {UTC(n) : n \in Instants}

\* ---------------------------------------------------------------------------
\* Values: the closed universe of field value shapes, tagged by their Go type
\* ---------------------------------------------------------------------------

magicValueHistoryCreation == [tag |-> "magic", v |-> <<0>>]

magicValueFieldRemoved == [tag |-> "magic", v |-> <<1>>]

SupportedTags == {"string", "bool", "int", "int64", "float64", "[]string",
                  "[]bool", "[]int", "[]int64", "[]float64", "[]byte"}

IntValue(n) == [tag |-> "int", v |-> <<n>>]

StringValue(n) == [tag |-> "string", v |-> <<n>>]

Field(name, value) == [name |-> name, value |-> value]

\* equals: a type switch on value1; panics on a type outside the switch.
equalsPanics(value1) == value1.tag \notin SupportedTags

\* A bug equals could have: the payloads are compared, the types are not.
equals_PayloadOnly(value1, value2) ==
    /\ Len(value1.v) = Len(value2.v)
    /\ \A i \in 1..Len(value1.v) : value1.v[i] = value2.v[i]

equals(value1, value2) ==
    /\ value2.tag = value1.tag
    /\ Len(value1.v) = Len(value2.v)
    /\ \A i \in 1..Len(value1.v) : value1.v[i] = value2.v[i]

\* ---------------------------------------------------------------------------
\* fieldSlice: a Go slice of Field, which may be nil
\* ---------------------------------------------------------------------------

NilSlice == [isNil |-> TRUE, elems |-> <<>>]

Slice(s) == [isNil |-> FALSE, elems |-> s]

\* Index of the first field named name, 1-based; 0 stands for Go's -1.
IndexOf(s, name) ==
    IF \E i \in 1..Len(s) : s[i].name = name
    THEN CHOOSE i \in 1..Len(s) :
             /\ s[i].name = name
             /\ \A j \in 1..(i - 1) : s[j].name # name
    ELSE 0

\* A bug Contains could have: no name is ever found.
Contains_Never(s, name) == FALSE

Contains(s, name) == IndexOf(s, name) # 0

TryGet(s, name) ==
    IF IndexOf(s, name) # 0
    THEN [field |-> s[IndexOf(s, name)], ok |-> TRUE]
    ELSE [field |-> Field("", magicValueHistoryCreation), ok |-> FALSE]

\* A bug Remove could have: the last field is dropped without the swap.
Remove_LastDropped(slice, name) ==
    IF IndexOf(slice.elems, name) = 0 THEN slice
    ELSE [slice EXCEPT !.elems = SubSeq(slice.elems, 1, Len(slice.elems) - 1)]

\* Remove: swap the named field with the last one, then drop the last.
Remove(slice, name) ==
    LET s == slice.elems
        index == IndexOf(s, name)
        n == Len(s)
    IN  IF index = 0 THEN slice
        ELSE [slice EXCEPT !.elems = SubSeq([s EXCEPT ![index] = s[n]], 1, n - 1)]

\* Set: replace in place when present, append otherwise.
Set(slice, name, value) ==
    LET s == slice.elems
        index == IndexOf(s, name)
    IN  IF index = 0 THEN Slice(Append(s, Field(name, value)))
        ELSE [slice EXCEPT !.elems[index] = Field(name, value)]

\* The name/value pairs of a slice, as a set.
FieldSet(slice) == {slice.elems[i] : i \in 1..Len(slice.elems)}

\* ---------------------------------------------------------------------------
\* Auditor and Signature
\* ---------------------------------------------------------------------------

\* Strings are sequences of characters.
NewAuditor(kind, id) == [kind |-> kind, id |-> id]

ZeroAuditor == NewAuditor(<<>>, <<>>)

NewSignature(auditor, timestamp) == [auditor |-> auditor, timestamp |-> timestamp]

ZeroSignature == NewSignature(ZeroAuditor, ZeroTime)

\* ---------------------------------------------------------------------------
\* AuditableObject: what the caller's object answers to GetFields / SetFields
\* ---------------------------------------------------------------------------

\* A nil AuditableObject interface value (the oldObj of a creation audit).
NoObject == [present |-> FALSE, fields |-> NilSlice, tRollback |-> ZeroTime]

Object(fields, tRollback) == [present |-> TRUE, fields |-> fields, tRollback |-> tRollback]

GetFields(o) == [fields |-> o.fields, tRollback |-> o.tRollback]

SetFields(o, fields, tRollback) == [o EXCEPT !.fields = fields, !.tRollback = tRollback]

\* ---------------------------------------------------------------------------
\* Errors
\* ---------------------------------------------------------------------------

NoError == "nil"

ErrDidNotExist == "the object did not exist at the given time"

ErrOldObjNil == "oldObj cannot be nil when there is an audit history. Only allowed on initial audit"

ErrSignatureTimestamp == "invalid signature timestamp: must be after latest audit timestamp"

ErrRolledBackObject == "cannot audit based on a rolled back object"

\* A bug RollbackTo could have: the empty history is reported as a time
\* before the creation.
ErrEmptyHistory_AsDidNotExist == ErrDidNotExist

ErrEmptyHistory == "invalid state: empty history"

ErrAlreadyRolledBack == "object is already rolled back to a timestamp earlier than t"

Panic == "panic"

\* ---------------------------------------------------------------------------
\* AuditableValues: the history and Audit
\* ---------------------------------------------------------------------------

\* A bug addHistory could have: the result of append is not stored.
addHistory_AppendDropped(h, sig, fields) == h

\* A bug addHistory could have: the new entry is put before the others.
addHistory_Prepended(h, sig, fields) == <<[fields |-> fields, signature |-> sig]>> \o h

addHistory(h, sig, fields) == Append(h, [fields |-> fields, signature |-> sig])

CreationFields == <<Field("", magicValueHistoryCreation)>>

RECURSIVE removedFrom(_, _, _)
\* First loop of getHistoryFields: the old fields whose name is not in newFields.
removedFrom(oldFields, newFields, i) ==
    IF i > Len(oldFields) THEN <<>>
    ELSE (IF ~Contains(newFields, oldFields[i].name) THEN <<oldFields[i]>> ELSE <<>>)
         \o removedFrom(oldFields, newFields, i + 1)

\* Another order getHistoryFields could produce: the old values of the
\* updated fields first, the markers of the added fields after them.
addedOrUpdated_Grouped(oldFields, newFields, i) ==
    LET Updated(f) == /\ Contains(oldFields, f.name)
                      /\ TryGet(oldFields, f.name).field.value # f.value
        Added(f) == ~Contains(oldFields, f.name)
        updated == SelectSeq(newFields, Updated)
        added == SelectSeq(newFields, Added)
    IN  [k \in 1..Len(updated) |-> TryGet(oldFields, updated[k].name).field]
        \o [k \in 1..Len(added) |-> Field(added[k].name, magicValueFieldRemoved)]

RECURSIVE addedOrUpdated(_, _, _)
\* Second loop of getHistoryFields, over newFields in their order.
addedOrUpdated(oldFields, newFields, i) ==
    IF i > Len(newFields) THEN <<>>
    ELSE LET newField == newFields[i]
             got == TryGet(oldFields, newField.name)
         IN  (IF got.ok
              THEN (IF ~equals(got.field.value, newField.value) THEN <<got.field>> ELSE <<>>)
              ELSE <<Field(newField.name, magicValueFieldRemoved)>>)
             \o addedOrUpdated(oldFields, newFields, i + 1)

\* getHistoryFields: the reverse delta of (oldFields, newFields); equals panics
\* on an old value whose type is outside its switch.
getHistoryFields(oldFields, newFields) ==
    IF oldFields.isNil THEN [panics |-> FALSE, fields |-> CreationFields]
    ELSE IF \E i \in 1..Len(newFields.elems) :
                LET got == TryGet(oldFields.elems, newFields.elems[i].name)
                IN  got.ok /\ equalsPanics(got.field.value)
    THEN [panics |-> TRUE, fields |-> <<>>]
    ELSE [panics |-> FALSE,
          fields |-> removedFrom(oldFields.elems, newFields.elems, 1)
                     \o addedOrUpdated(oldFields.elems, newFields.elems, 1)]

AuditResult(h, changed, err) == [history |-> h, changed |-> changed, err |-> err]

\* A bug Audit could have: a signature that equals the latest audit's is let in.
signatureNotAfterLatest_AllowsEqual(h, sig) ==
    TimeBefore(sig.timestamp, h[Len(h)].signature.timestamp)

\* !sig.timestamp.After(tLatestAudit)
signatureNotAfterLatest(h, sig) ==
    ~TimeAfter(sig.timestamp, h[Len(h)].signature.timestamp)

\* A bug Audit could have: a nil oldObj is let in whatever the history.
oldObjMissing_Unchecked(h, oldObj) == FALSE

\* n > 0 and oldObj == nil
oldObjMissing(h, oldObj) == Len(h) > 0 /\ ~oldObj.present

\* A bug Audit could have: the tRollback that GetFields returns is not looked at.
rolledBack_Unchecked(got) == FALSE

\* !tRollback.IsZero(), for what GetFields returned
rolledBack(got) == ~TimeIsZero(got.tRollback)

\* A bug Audit could have: an empty list of changed fields is appended too.
noChanges_Ignored(changedFields) == FALSE

\* n == 0, for n := len(changedFields)
noChanges(changedFields) == Len(changedFields) = 0

\* Audit(oldObj, newObj, sig) on history h.
Audit(h, oldObj, newObj, sig) ==
    LET n == Len(h) IN
    IF oldObjMissing(h, oldObj)
    THEN AuditResult(h, FALSE, ErrOldObjNil)
    ELSE IF n > 0 /\ signatureNotAfterLatest(h, sig)
    THEN AuditResult(h, FALSE, ErrSignatureTimestamp)
    ELSE IF oldObj.present /\ rolledBack(GetFields(oldObj))
    THEN AuditResult(h, FALSE, ErrRolledBackObject)
    ELSE IF rolledBack(GetFields(newObj))
    THEN AuditResult(h, FALSE, ErrRolledBackObject)
    ELSE LET oldFields == IF oldObj.present THEN GetFields(oldObj).fields ELSE NilSlice
             changedFields == getHistoryFields(oldFields, GetFields(newObj).fields)
         IN  IF changedFields.panics THEN AuditResult(h, FALSE, Panic)
             ELSE IF noChanges(changedFields.fields) THEN AuditResult(h, FALSE, NoError)
             ELSE AuditResult(addHistory(h, sig, changedFields.fields), TRUE, NoError)

\* ---------------------------------------------------------------------------
\* RollbackTo
\* ---------------------------------------------------------------------------

RECURSIVE undoFields(_, _, _)
\* Inner loop of RollbackTo: undo the fields of one history entry, in order.
undoFields(fields, j, currentFields) ==
    IF j > Len(fields) THEN currentFields
    ELSE undoFields(fields, j + 1,
            IF fields[j].value = magicValueFieldRemoved
            THEN Remove(currentFields, fields[j].name)
            ELSE Set(currentFields, fields[j].name, fields[j].value))

RECURSIVE undoHistory(_, _, _, _, _, _)
\* Outer loop of RollbackTo: entries i, i-1, ..., 2 (the first entry is skipped).
undoHistory(h, i, currentFields, isRolledBack, tRollback, t) ==
    IF i <= 1 THEN currentFields
    ELSE LET tHistory == h[i].signature.timestamp
         IN  undoHistory(h, i - 1,
                IF (isRolledBack /\ TimeAfter(tHistory, tRollback)) \/ ~TimeAfter(tHistory, t)
                THEN currentFields
                ELSE undoFields(h[i].fields, 1, currentFields),
                isRolledBack, tRollback, t)

\* A bug RollbackTo could have: the operands of Before are swapped.
beforeCreation_Swapped(h, t) == TimeBefore(h[1].signature.timestamp, t)

\* t.Before(tCreation)
beforeCreation(h, t) == TimeBefore(t, h[1].signature.timestamp)

\* A bug RollbackTo could have: a rollback to the time the object is already
\* rolled back to is refused too.
rolledBackBefore_OrEqual(got, t) ==
    ~TimeIsZero(got.tRollback) /\ ~TimeAfter(got.tRollback, t)

\* isRolledBack && tRollback.Before(t), for what GetFields returned
rolledBackBefore(got, t) ==
    ~TimeIsZero(got.tRollback) /\ TimeBefore(got.tRollback, t)

RollbackResult(err, setFieldsCalled, obj) ==
    [err |-> err, setFieldsCalled |-> setFieldsCalled, obj |-> obj]

\* RollbackTo(obj, t) on history h: the error, whether SetFields was called, and
\* the object as it is left.
RollbackTo(h, obj, t) ==
    IF Len(h) = 0 THEN RollbackResult(ErrEmptyHistory, FALSE, obj)
    ELSE IF beforeCreation(h, t)
    THEN RollbackResult(ErrDidNotExist, FALSE, obj)
    ELSE LET got == GetFields(obj)
             isRolledBack == ~TimeIsZero(got.tRollback)
         IN  IF rolledBackBefore(got, t)
             THEN RollbackResult(ErrAlreadyRolledBack, FALSE, obj)
             ELSE RollbackResult(NoError, TRUE,
                     SetFields(obj, undoHistory(h, Len(h), got.fields, isRolledBack,
                                                got.tRollback, t), t))

\* ---------------------------------------------------------------------------
\* The engine in use: one history, the caller's object, and the calls on them
\* ---------------------------------------------------------------------------

\* Field names and values the caller's objects use.
Names == {"a"}

Values == {IntValue(1), IntValue(2)}

\* The field lists a caller's GetFields may return: unique names, any order,
\* and the nil slice for an object without fields.
CallerFields == {Field(n, v) : n \in Names, v \in Values}

CallerSlices ==
    {NilSlice} \cup
    {Slice(s) : s \in {q \in UNION {[1..k -> CallerFields] : k \in 0..Cardinality(Names)} :
                          \A i, j \in 1..Len(q) : i # j => q[i].name # q[j].name}}

\* The signatures of the calls: the zero Auditor and any instant.
Signatures == {NewSignature(ZeroAuditor, t) : t \in Times}

VARIABLES
    history,    \* AuditableValues.history
    obj,        \* the caller's object
    last,       \* the last call on the engine and what it returned
    states,     \* the states S0..Sn audited so far, while the calls follow the
                \* memento discipline (creation, then Audit(previous, current))
    audits,     \* number of Audit calls that returned changed = true
    rolledTo,   \* target of the last successful RollbackTo on obj
    input,      \* arguments of a single call (SpecDiff, SpecCodec)
    output      \* what that call returned

vars == <<history, obj, last, states, audits, rolledTo, input, output>>

\* The specifications of the engine in use make no single call.
NoInput == <<>>

NoOutput == <<>>

NoCall == [op |-> "none", err |-> NoError, changed |-> FALSE, setFieldsCalled |-> FALSE]

NotRolledTo == [some |-> FALSE, t |-> ZeroTime]

Init ==
    /\ history = <<>>
    /\ obj \in {Object(f, ZeroTime) : f \in CallerSlices}
    /\ last = NoCall
    /\ states = <<>>
    /\ audits = 0
    /\ rolledTo = NotRolledTo
    /\ input = NoInput
    /\ output = NoOutput

\* The caller replaces obj by a new, live object.
NewObject(f) ==
    /\ obj' = Object(f, ZeroTime)
    /\ obj' # obj
    /\ last' = NoCall
    /\ rolledTo' = NotRolledTo
    /\ UNCHANGED <<history, states, audits, input, output>>

\* The caller changes the fields of obj.
Mutate(f) ==
    /\ f # obj.fields
    /\ obj' = [obj EXCEPT !.fields = f]
    /\ last' = NoCall
    /\ UNCHANGED <<history, states, audits, rolledTo, input, output>>

\* The old objects a caller may pass to Audit: none, obj itself, or a memento.
OldObjects == {NoObject, obj} \cup {Object(f, ZeroTime) : f \in CallerSlices}

\* values.Audit(oldObj, newObj, sig) and what it returns; newObj is the
\* caller's object from then on.
AuditCall(oldObj, newObj, sig) ==
    LET r == Audit(history, oldObj, newObj, sig) IN
    /\ Len(r.history) <= MaxHistory
    /\ history' = r.history
    /\ last' = [op |-> "Audit", err |-> r.err, changed |-> r.changed,
                setFieldsCalled |-> FALSE]
    /\ audits' = IF r.changed THEN audits + 1 ELSE audits
    /\ obj' = newObj
    /\ rolledTo' = IF newObj = obj THEN rolledTo ELSE NotRolledTo
    /\ UNCHANGED <<input, output>>

\* values.Audit(oldObj, obj, sig)
AuditStep(oldObj, sig) ==
    /\ AuditCall(oldObj, obj, sig)
    /\ UNCHANGED states

\* values.RollbackTo(obj, t)
RollbackToStep(t) ==
    LET r == RollbackTo(history, obj, t) IN
    /\ obj' = r.obj
    /\ last' = [op |-> "RollbackTo", err |-> r.err, changed |-> FALSE,
                setFieldsCalled |-> r.setFieldsCalled]
    /\ rolledTo' = IF r.err = NoError THEN [some |-> TRUE, t |-> t] ELSE rolledTo
    /\ UNCHANGED <<history, states, audits, input, output>>

Next ==
    \/ \E f \in CallerSlices : NewObject(f)
    \/ \E f \in CallerSlices : Mutate(f)
    \/ \E oldObj \in OldObjects, sig \in Signatures : AuditStep(oldObj, sig)
    \/ \E t \in Times : RollbackToStep(t)

Spec == Init /\ [][Next]_vars

\* ---------------------------------------------------------------------------
\* The engine used as its tests use it (SpecUsage): a creation audit, then
\* audits of (memento of the previous state, current state), then rollbacks
\* ---------------------------------------------------------------------------

\* The fields of the caller's object: "a" changes its value, "b" comes and goes.
UsageFields ==
    {Field("a", IntValue(1)), Field("a", IntValue(2)), Field("b", StringValue(1))}

UsageSlices ==
    {NilSlice} \cup
    {Slice(s) : s \in {q \in UNION {[1..k -> UsageFields] : k \in 0..2} :
                          \A i, j \in 1..Len(q) : i # j => q[i].name # q[j].name}}

InitUsage ==
    /\ history = <<>>
    /\ obj \in {Object(f, ZeroTime) : f \in UsageSlices}
    /\ last = NoCall
    /\ states = <<>>
    /\ audits = 0
    /\ rolledTo = NotRolledTo
    /\ input = NoInput
    /\ output = NoOutput

\* The signatures a caller in order may pass: any on the empty history, one
\* later than the latest entry after it.
SignatureInOrder(sig) ==
    Len(history) = 0 \/ TimeAfter(sig.timestamp, history[Len(history)].signature.timestamp)

\* The old object of a caller that keeps its mementos: none on the empty
\* history, a live object holding the previously audited state after it.
MementoOfPrevious(oldObj) ==
    IF Len(history) = 0 THEN ~oldObj.present
    ELSE oldObj.present /\ FieldSet(oldObj.fields) = states[Len(states)]

UsageOldObjects == {NoObject} \cup {Object(f, ZeroTime) : f \in UsageSlices}

\* The caller keeps a memento of its object, changes the object to hold the
\* fields f, and calls values.Audit(memento, obj, sig).
UsageAudit(oldObj, f, sig) ==
    /\ AuditCall(oldObj, Object(f, ZeroTime), sig)
    /\ states' = IF last'.changed THEN Append(states, FieldSet(f)) ELSE states

NextUsage ==
    \/ \E sig \in {g \in Signatures : SignatureInOrder(g)} :
          \E oldObj \in {o \in UsageOldObjects : MementoOfPrevious(o)} :
             \E f \in UsageSlices : UsageAudit(oldObj, f, sig)
    \/ \E t \in Times : RollbackToStep(t)

SpecUsage == InitUsage /\ [][NextUsage]_vars

\* ---------------------------------------------------------------------------
\* One Audit call on a history that holds its creation entry (SpecDiff)
\* ---------------------------------------------------------------------------

DiffNames == {"a", "b", "c"}

DiffValues == {IntValue(1), IntValue(2), StringValue(1)}

DiffFields == {Field(n, v) : n \in DiffNames, v \in DiffValues}

\* Field lists with unique names, in any order, and the nil slice.
DiffSlices ==
    {NilSlice} \cup
    {Slice(s) : s \in {q \in UNION {[1..k -> DiffFields] : k \in 0..Cardinality(DiffNames)} :
                          \A i, j \in 1..Len(q) : i # j => q[i].name # q[j].name}}

CreatedHistory == <<[fields |-> CreationFields,
                     signature |-> NewSignature(ZeroAuditor, UTC(1))]>>

InitDiff ==
    /\ history = CreatedHistory
    /\ obj = Object(NilSlice, ZeroTime)
    /\ last = NoCall
    /\ states = <<>>
    /\ audits = 1
    /\ rolledTo = NotRolledTo
    /\ input \in [oldFields : DiffSlices, newFields : DiffSlices]
    /\ output = NoOutput

\* values.Audit(oldObj, newObj, sig) for objects holding the fields of input.
AuditDiff ==
    /\ last.op = "none"
    /\ AuditCall(Object(input.oldFields, ZeroTime), Object(input.newFields, ZeroTime),
                 NewSignature(ZeroAuditor, UTC(2)))
    /\ UNCHANGED states

NextDiff == AuditDiff

SpecDiff == InitDiff /\ [][NextDiff]_vars

DiffDone == last.op = "Audit"

NamesOf(slice) == {slice.elems[i].name : i \in 1..Len(slice.elems)}

\* The value the old fields of input give to a name they hold.
OldValue(name) == (CHOOSE f \in FieldSet(input.oldFields) : f.name = name).value

NewValue(name) == (CHOOSE f \in FieldSet(input.newFields) : f.name = name).value

RemovedNames == NamesOf(input.oldFields) \ NamesOf(input.newFields)

AddedNames == NamesOf(input.newFields) \ NamesOf(input.oldFields)

ChangedNames ==
    {n \in NamesOf(input.oldFields) \cap NamesOf(input.newFields) : OldValue(n) # NewValue(n)}

ExpectedDelta ==
    {Field(n, OldValue(n)) : n \in RemovedNames \cup ChangedNames}
    \cup {Field(n, magicValueFieldRemoved) : n \in AddedNames}

\* C4: for old fields O that are present and new fields N, the entry Audit
\* appends holds, as a set, the old field of every name in O and not in N, the
\* old field of every name in both whose values differ, and a FIELD_REMOVED
\* marker for every name in N and not in O; nothing else, and no entry at all
\* when that set is empty.
C4_EntryIsReverseDelta ==
    (DiffDone /\ ~input.oldFields.isNil)
    => IF ExpectedDelta = {}
       THEN ~last.changed /\ history = CreatedHistory
       ELSE /\ last.changed
            /\ Len(history) = 2
            /\ {history[2].fields[i] : i \in 1..Len(history[2].fields)} = ExpectedDelta

\* An entry with a removed, a changed and an added field was appended.
C4_Witness ==
    /\ DiffDone
    /\ ~input.oldFields.isNil
    /\ Len(history) = 2
    /\ RemovedNames # {}
    /\ ChangedNames # {}
    /\ AddedNames # {}

\* Group of a name in the reverse delta: removed, changed, added.
GroupOf(name) ==
    IF name \in RemovedNames THEN 1 ELSE IF name \in AddedNames THEN 3 ELSE 2

\* C5 as claimed: in the appended entry all removed fields come first, then
\* all changed fields, then all FIELD_REMOVED markers of added fields.
C5_ThreeGroupsInOrder ==
    (DiffDone /\ ~input.oldFields.isNil /\ Len(history) = 2)
    => \A i, j \in 1..Len(history[2].fields) :
          i < j => GroupOf(history[2].fields[i].name) <= GroupOf(history[2].fields[j].name)

\* C5 as amended: the appended entry lists first the removed fields, in the
\* order of O, and then, in the order of N, the old field of each changed
\* name and the FIELD_REMOVED marker of each added name, interleaved as N
\* lists them.
C5_RemovedThenNewOrder ==
    (DiffDone /\ ~input.oldFields.isNil /\ Len(history) = 2)
    => LET IsRemoved(f) == f.name \in RemovedNames
           IsListed(f) == f.name \in ChangedNames \cup AddedNames
           removed == SelectSeq(input.oldFields.elems, IsRemoved)
           listed == SelectSeq(input.newFields.elems, IsListed)
       IN  history[2].fields =
              removed \o [k \in 1..Len(listed) |->
                            IF listed[k].name \in AddedNames
                            THEN Field(listed[k].name, magicValueFieldRemoved)
                            ELSE Field(listed[k].name, OldValue(listed[k].name))]

\* N lists an added field before a changed one, and O holds a removed field.
C5_Witness ==
    /\ DiffDone
    /\ ~input.oldFields.isNil
    /\ Len(history) = 2
    /\ RemovedNames # {}
    /\ \E i, j \in 1..Len(history[2].fields) :
          /\ i < j
          /\ history[2].fields[i].name \in AddedNames
          /\ history[2].fields[j].name \in ChangedNames

\* Index of the latest history entry that is not after t.
EntryAt(t) ==
    CHOOSE k \in 1..Len(history) :
        /\ ~TimeAfter(history[k].signature.timestamp, t)
        /\ \A j \in (k + 1)..Len(history) : TimeAfter(history[j].signature.timestamp, t)

\* C1 as claimed: on a history built by a creation audit of S0 and audits of
\* (S(i-1), Si) at increasing timestamps, RollbackTo(obj, t) of a live object
\* holding Sn, with t not before the creation, succeeds and calls SetFields
\* with the fields of Sk (as a set) and with t, k being the latest entry that
\* is not after t.
C1_RollbackReconstructsState ==
    [][\A t \in Times :
          (/\ Len(history) > 0
           /\ TimeIsZero(obj.tRollback)
           /\ FieldSet(obj.fields) = states[Len(states)]
           /\ ~TimeBefore(t, history[1].signature.timestamp)
           /\ RollbackToStep(t))
          => /\ last'.err = NoError
             /\ last'.setFieldsCalled
             /\ FieldSet(obj'.fields) = states[EntryAt(t)]
             /\ obj'.tRollback = t]_vars

\* ---------------------------------------------------------------------------
\* Properties of Audit and RollbackTo under any use (Spec)
\* ---------------------------------------------------------------------------

Timestamp(i) == history[i].signature.timestamp

\* C2: after any sequence of Audit calls, successful, without change or
\* failing, the timestamps of the history entries are strictly increasing.
C2_TimestampsStrictlyIncreasing ==
    \A i \in 1..(Len(history) - 1) : TimeBefore(Timestamp(i), Timestamp(i + 1))

\* An Audit call was refused for its timestamp on a history of several entries.
C2_Witness ==
    /\ Len(history) >= 2
    /\ last.op = "Audit"
    /\ last.err = ErrSignatureTimestamp

\* C3 as claimed: after any sequence of Audit calls from the empty history,
\* the history is empty or its first entry carries exactly the creation field.
C3_FirstEntryIsCreation ==
    Len(history) = 0 \/ history[1].fields = CreationFields

\* C6 as claimed: after a successful RollbackTo(obj, t), a RollbackTo(obj, t2)
\* with t2 after t fails with the rollback-monotonicity error, does not call
\* SetFields and leaves the object as it was.
C6_NoRollForward ==
    [][\A t2 \in Times :
          (rolledTo.some /\ TimeAfter(t2, rolledTo.t) /\ RollbackToStep(t2))
          => /\ last'.err = ErrAlreadyRolledBack
             /\ ~last'.setFieldsCalled
             /\ obj' = obj]_vars

\* C7 as claimed, for the calls a correct caller makes (a live object, and a
\* signature after the latest entry of a history that exists): Audit(prev, prev,
\* sig) returns (false, nil) and leaves the history as it was.
C7_UnchangedObjectNoEntry ==
    [][\A sig \in Signatures :
          (/\ Len(history) > 0
           /\ TimeAfter(sig.timestamp, Timestamp(Len(history)))
           /\ TimeIsZero(obj.tRollback)
           /\ AuditStep(obj, sig))
          => /\ last'.err = NoError
             /\ ~last'.changed
             /\ history' = history]_vars

\* C8: the history is as long as the number of Audit calls that returned
\* changed = true (the count grows by one with each such call and by nothing
\* with any other call), and changed = true comes with a nil error only.
C8_LengthCountsChangedAudits ==
    /\ Len(history) = audits
    /\ (last.op = "Audit" /\ last.changed) => last.err = NoError

\* Calls of all three kinds happened: changed, without change, and failing.
C8_Witness ==
    /\ Len(history) >= 2
    /\ last.op = "Audit"
    /\ ~last.changed
    /\ last.err = NoError

\* C10: on a history that is not empty, RollbackTo(obj, t) with t before the
\* first entry's timestamp returns ErrDidNotExist, for a live object and for a
\* rolled back one, does not call SetFields and leaves the object as it was.
C10_BeforeCreationDidNotExist ==
    [][\A t \in Times :
          (/\ Len(history) > 0
           /\ TimeBefore(t, Timestamp(1))
           /\ RollbackToStep(t))
          => /\ last'.err = ErrDidNotExist
             /\ ~last'.setFieldsCalled
             /\ obj' = obj]_vars

\* A rolled back object was refused a rollback to before the creation.
C10_Witness ==
    /\ last.op = "RollbackTo"
    /\ last.err = ErrDidNotExist
    /\ ~TimeIsZero(obj.tRollback)

\* ---------------------------------------------------------------------------
\* The codecs: Auditor.Encode/Decode, Signature and history serialization
\* ---------------------------------------------------------------------------

\* Bounds of the histories given to the codec.

\* Most entries of a history given to Serialize.
MaxEntries == 2

\* Most fields, all entries together, of a history given to Serialize.
MaxFields == 2

\* The instant of the Unix epoch; instants count nanoseconds, and the epoch
\* comes after Go's zero time.
UnixEpoch == 1

\* UnixNano of maxAllowed (2200-01-01T00:00:00Z), scaled down to the model's
\* instants.
MaxUnixNano == 2

\* A bug SerializeToBufRW could have: the nanosecond of minAllowed is left out.
minAllowed_Epoch == UTC(UnixEpoch)

minAllowed == UTC(UnixEpoch + 1)

maxAllowed == UTC(UnixEpoch + MaxUnixNano)

UnixNano(t) == t.at - UnixEpoch

\* time.Unix(0, unixNano).In(time.UTC)
Unix(unixNano) == UTC(UnixEpoch + unixNano)

ErrTimestampZone == "invalid signature timestamp: must be in zone with offset = 0"

ErrTimestampBounds == "signature timestamp is out of bounds"

ErrUnsupportedVersion == "unsupported version number"

ErrInvalidAuditor == "invalid encoded actor"

ErrInvalidUnixNano == "invalid unix nano value found"

ErrCannotSerialize == "cannot serialize value of type"

ErrInvalidVersion == "invalid version number"

ErrInvalidValueType == "invalid value type"

\* The error of a bufrw read that finds the stream ended, or finds something
\* else than what it was asked to read.
ErrRead == "bufrw: read error"

\* bufrw streams: the values written, in order, each under the kind of the
\* Write call that wrote it. A string is carried as the model holds it.
Token(k, v) == [k |-> k, v |-> v]

Read(stream, pos, k) ==
    IF pos <= Len(stream) /\ stream[pos].k = k
    THEN [err |-> NoError, v |-> stream[pos].v, pos |-> pos + 1]
    ELSE [err |-> ErrRead, v |-> 0, pos |-> pos]

\* A bug Encode could have: the separator is left out.
Encode_NoSeparator(auditor) == auditor.kind \o auditor.id

\* Auditor.Encode
Encode(auditor) == auditor.kind \o <<"/">> \o auditor.id

RECURSIVE Split(_)
\* strings.Split(src, "/")
Split(src) ==
    IF \E i \in 1..Len(src) : src[i] = "/"
    THEN LET i == CHOOSE k \in 1..Len(src) :
                      src[k] = "/" /\ \A j \in 1..(k - 1) : src[j] # "/"
         IN  <<SubSeq(src, 1, i - 1)>> \o Split(SubSeq(src, i + 1, Len(src)))
    ELSE <<src>>

\* Auditor.Decode on a zero Auditor
Decode(src) ==
    LET split == Split(src) IN
    IF Len(split) # 2
    THEN [err |-> ErrInvalidAuditor, auditor |-> ZeroAuditor]
    ELSE [err |-> NoError, auditor |-> NewAuditor(split[1], split[2])]

\* Signature.Equal
SignatureEqual(sig, other) ==
    /\ sig.auditor.kind = other.auditor.kind
    /\ sig.auditor.id = other.auditor.id
    /\ TimeEqual(sig.timestamp, other.timestamp)

\* Signature.SerializeToBufRW: the error and what was written before it.
SerializeToBufRW(sig) ==
    LET t == sig.timestamp
        head == <<Token("int", 1), Token("string", Encode(sig.auditor))>>
    IN  IF t.offset # 0
        THEN [err |-> ErrTimestampZone, stream |-> <<>>]
        ELSE IF ~TimeIsZero(t) /\ (TimeBefore(t, minAllowed) \/ TimeAfter(t, maxAllowed))
        THEN [err |-> ErrTimestampBounds, stream |-> head]
        ELSE [err |-> NoError,
              stream |-> Append(head, Token("int64",
                                            IF ~TimeIsZero(t) THEN UnixNano(t) ELSE 0))]

\* Signature.DeserializeFromBufRW on a zero Signature, reading from pos.
DeserializeFromBufRW(stream, pos) ==
    LET Fail(err) == [err |-> err, pos |-> pos, sig |-> ZeroSignature]
        version == Read(stream, pos, "int")
        auditorString == Read(stream, version.pos, "string")
        auditor == Decode(auditorString.v)
        unixNano == Read(stream, auditorString.pos, "int64")
    IN  IF version.err # NoError THEN Fail(version.err)
        ELSE IF version.v # 1 THEN Fail(ErrUnsupportedVersion)
        ELSE IF auditorString.err # NoError THEN Fail(auditorString.err)
        ELSE IF auditor.err # NoError THEN Fail(auditor.err)
        ELSE IF unixNano.err # NoError THEN Fail(unixNano.err)
        ELSE IF unixNano.v < 0 THEN Fail(ErrInvalidUnixNano)
        ELSE [err |-> NoError, pos |-> unixNano.pos,
              sig |-> NewSignature(auditor.auditor,
                                   IF unixNano.v > 0 THEN Unix(unixNano.v) ELSE ZeroTime)]

\* stringSlice.IndexOf, 0-based as in Go; -1 when the string is not there.
stringSliceIndexOf(slice, s) ==
    IF \E i \in 1..Len(slice) : slice[i] = s
    THEN (CHOOSE i \in 1..Len(slice) :
              slice[i] = s /\ \A j \in 1..(i - 1) : slice[j] # s) - 1
    ELSE 0 - 1

\* A bug stringSlice.Contains could have: no name is ever found.
stringSliceContains_Never(s, name) == FALSE

stringSliceContains(slice, s) == \E i \in 1..Len(slice) : slice[i] = s

\* The types SerializeTo writes, in the order of their type tags 0..11.
TypeTags == <<"magic", "string", "bool", "int", "int64", "float64", "[]string",
              "[]bool", "[]int", "[]int64", "[]float64", "[]byte">>

\* The kind of bufrw Write and Read that carries the payload of each type.
PayloadKinds == <<"byte", "string", "bool", "int", "int64", "float64", "strings",
                  "bools", "ints", "int64s", "float64s", "bytes">>

\* Types whose payload is one number (the others carry a sequence).
ScalarTags == {"magic", "bool", "int", "int64", "float64"}

\* byte(v) of a magicValue (an int8), and magicValue(b) of a byte.
ByteOf(v) == v % 256

MagicOf(b) == IF b >= 128 THEN b - 256 ELSE b

\* A bug the type switch of SerializeTo could have: the tags of int and
\* int64 are exchanged.
TypeTagOf_IntTagsSwapped(value) ==
    IF value.tag = "int" THEN 4
    ELSE IF value.tag = "int64" THEN 3
    ELSE (CHOOSE c \in 1..Len(TypeTags) : TypeTags[c] = value.tag) - 1

\* The type tag SerializeTo writes for a value of a type in its switch.
TypeTagOf(value) == (CHOOSE c \in 1..Len(TypeTags) : TypeTags[c] = value.tag) - 1

\* The type switch of SerializeTo: the tag byte, then the payload.
writeValue(value) ==
    IF \E c \in 1..Len(TypeTags) : TypeTags[c] = value.tag
    THEN LET code == TypeTagOf(value)
             payload == IF value.tag = "magic" THEN ByteOf(value.v[1])
                        ELSE IF value.tag \in ScalarTags THEN value.v[1]
                        ELSE value.v
         IN  [err |-> NoError,
              stream |-> <<Token("byte", code),
                           Token(PayloadKinds[(CHOOSE c \in 1..Len(TypeTags) :
                                                   TypeTags[c] = value.tag)], payload)>>]
    ELSE [err |-> ErrCannotSerialize, stream |-> <<>>]

RECURSIVE writeFields(_, _, _)
\* The loop of SerializeTo over the fields of one entry, from field j on.
writeFields(fields, j, fieldNames) ==
    IF j > Len(fields) THEN [err |-> NoError, stream |-> <<>>]
    ELSE LET nameIndex == stringSliceIndexOf(fieldNames, fields[j].name)
             value == writeValue(fields[j].value)
             written == <<Token("int", nameIndex)>> \o value.stream
         IN  IF value.err # NoError THEN [err |-> value.err, stream |-> written]
             ELSE LET rest == writeFields(fields, j + 1, fieldNames)
                  IN  [err |-> rest.err, stream |-> written \o rest.stream]

RECURSIVE writeHistory(_, _, _)
\* The loop of SerializeTo over the history, from entry i on.
writeHistory(h, i, fieldNames) ==
    IF i > Len(h) THEN [err |-> NoError, stream |-> <<>>]
    ELSE LET sig == SerializeToBufRW(h[i].signature)
             fields == writeFields(h[i].fields, 1, fieldNames)
             written == sig.stream \o <<Token("int", Len(h[i].fields))>> \o fields.stream
         IN  IF sig.err # NoError THEN [err |-> sig.err, stream |-> sig.stream]
             ELSE IF fields.err # NoError THEN [err |-> fields.err, stream |-> written]
             ELSE LET rest == writeHistory(h, i + 1, fieldNames)
                  IN  [err |-> rest.err, stream |-> written \o rest.stream]

RECURSIVE allFields(_, _)
\* The fields of the entries from entry i on, in the order SerializeTo
\* walks them.
allFields(h, i) == IF i > Len(h) THEN <<>> ELSE h[i].fields \o allFields(h, i + 1)

RECURSIVE internNames(_, _, _)
\* The table of field names of SerializeTo: each name once, in the order of
\* its first field.
internNames(fields, i, fieldNames) ==
    IF i > Len(fields) THEN fieldNames
    ELSE internNames(fields, i + 1,
                     IF ~stringSliceContains(fieldNames, fields[i].name)
                     THEN Append(fieldNames, fields[i].name)
                     ELSE fieldNames)

\* AuditableValues.SerializeTo on a writer that does not fail.
SerializeTo(h) ==
    LET fieldNames == internNames(allFields(h, 1), 1, <<>>)
        head == <<Token("byte", 1), Token("int", Len(fieldNames))>>
                \o [i \in 1..Len(fieldNames) |-> Token("string", fieldNames[i])]
                \o <<Token("int", Len(h))>>
        body == writeHistory(h, 1, fieldNames)
    IN  [err |-> body.err, stream |-> head \o body.stream]

\* AuditableValues.Serialize: the bytes, or nil and the error.
Serialize(h) ==
    LET r == SerializeTo(h) IN
    IF r.err # NoError THEN [err |-> r.err, b |-> <<>>] ELSE [err |-> NoError, b |-> r.stream]

RECURSIVE readFieldNames(_, _, _)
\* The loop of DeserializeFrom over the n names of the table.
readFieldNames(stream, pos, n) ==
    IF n = 0 THEN [err |-> NoError, pos |-> pos, names |-> <<>>]
    ELSE LET key == Read(stream, pos, "string") IN
         IF key.err # NoError THEN [err |-> key.err, pos |-> pos, names |-> <<>>]
         ELSE LET rest == readFieldNames(stream, key.pos, n - 1)
              IN  [err |-> rest.err, pos |-> rest.pos, names |-> <<key.v>> \o rest.names]

\* One turn of the loop of DeserializeFrom over the fields of an entry;
\* fieldNames[nameIndex] panics on an index outside the table.
readField(stream, pos, fieldNames) ==
    LET Fail(err) == [err |-> err, pos |-> pos, field |-> Field("", magicValueHistoryCreation)]
        nameIndex == Read(stream, pos, "int")
        valueType == Read(stream, nameIndex.pos, "byte")
        tag == TypeTags[valueType.v + 1]
        payload == Read(stream, valueType.pos, PayloadKinds[valueType.v + 1])
        v == IF tag = "magic" THEN <<MagicOf(payload.v)>>
             ELSE IF tag \in ScalarTags THEN <<payload.v>>
             ELSE payload.v
    IN  IF nameIndex.err # NoError THEN Fail(nameIndex.err)
        ELSE IF nameIndex.v < 0 \/ nameIndex.v >= Len(fieldNames) THEN Fail(Panic)
        ELSE IF valueType.err # NoError THEN Fail(valueType.err)
        ELSE IF valueType.v \notin 0..(Len(TypeTags) - 1) THEN Fail(ErrInvalidValueType)
        ELSE IF payload.err # NoError THEN Fail(payload.err)
        ELSE [err |-> NoError, pos |-> payload.pos,
              field |-> Field(fieldNames[nameIndex.v + 1], [tag |-> tag, v |-> v])]

RECURSIVE readFields(_, _, _, _)
\* The loop of DeserializeFrom over the n fields of an entry.
readFields(stream, pos, n, fieldNames) ==
    IF n = 0 THEN [err |-> NoError, pos |-> pos, fields |-> <<>>]
    ELSE LET f == readField(stream, pos, fieldNames) IN
         IF f.err # NoError THEN [err |-> f.err, pos |-> pos, fields |-> <<>>]
         ELSE LET rest == readFields(stream, f.pos, n - 1, fieldNames)
              IN  [err |-> rest.err, pos |-> rest.pos, fields |-> <<f.field>> \o rest.fields]

\* An element of make([]auditHistory, n).
ZeroEntry == [fields |-> <<>>, signature |-> ZeroSignature]

RECURSIVE readHistory(_, _, _, _, _)
\* The loop of DeserializeFrom over the entries, from entry i on; an entry is
\* stored when its signature and all its fields are read.
readHistory(stream, pos, i, h, fieldNames) ==
    IF i > Len(h) THEN [err |-> NoError, history |-> h]
    ELSE LET sig == DeserializeFromBufRW(stream, pos)
             nFields == Read(stream, sig.pos, "int")
             fields == readFields(stream, nFields.pos, nFields.v, fieldNames)
         IN  IF sig.err # NoError THEN [err |-> sig.err, history |-> h]
             ELSE IF nFields.err # NoError THEN [err |-> nFields.err, history |-> h]
             ELSE IF nFields.v < 0 THEN [err |-> Panic, history |-> h]
             ELSE IF fields.err # NoError THEN [err |-> fields.err, history |-> h]
             ELSE readHistory(stream, fields.pos, i + 1,
                              [h EXCEPT ![i] = [fields |-> fields.fields,
                                                signature |-> sig.sig]],
                              fieldNames)

\* AuditableValues.DeserializeFrom on a receiver whose history is h: the
\* error and the history of the receiver after the call. make panics on a
\* negative length.
DeserializeFrom(h, stream) ==
    LET version == Read(stream, 1, "byte")
        nFieldNames == Read(stream, version.pos, "int")
        names == readFieldNames(stream, nFieldNames.pos, nFieldNames.v)
        nHistory == Read(stream, names.pos, "int")
    IN  IF version.err # NoError THEN [err |-> version.err, history |-> h]
        ELSE IF version.v # 1 THEN [err |-> ErrInvalidVersion, history |-> h]
        ELSE IF nFieldNames.err # NoError THEN [err |-> nFieldNames.err, history |-> h]
        ELSE IF nFieldNames.v < 0 THEN [err |-> Panic, history |-> h]
        ELSE IF names.err # NoError THEN [err |-> names.err, history |-> h]
        ELSE IF nHistory.err # NoError THEN [err |-> nHistory.err, history |-> h]
        ELSE IF nHistory.v < 0 THEN [err |-> Panic, history |-> h]
        ELSE readHistory(stream, nHistory.pos, 1, [i \in 1..nHistory.v |-> ZeroEntry],
                         names.names)

\* AuditableValues.Deserialize
Deserialize(h, b) == DeserializeFrom(h, b)

\* ---------------------------------------------------------------------------
\* A history serialized and read back into a new AuditableValues (SpecCodec)
\* ---------------------------------------------------------------------------

\* One value of each of the 12 shapes, both magic values, an empty slice, and
\* a value of a type outside the switch of SerializeTo.
CodecValues ==
    {magicValueHistoryCreation, magicValueFieldRemoved}
    \cup {[tag |-> tag, v |-> <<1>>] : tag \in {"string", "bool", "int", "int64", "float64"}}
    \cup {[tag |-> tag, v |-> <<1, 2>>] :
             tag \in {"[]string", "[]bool", "[]int", "[]int64", "[]float64", "[]byte"}}
    \cup {[tag |-> "[]int", v |-> <<>>], [tag |-> "uint", v |-> <<1>>]}

\* The fields of the entries: every value under one name, the creation field
\* as Audit writes it, and a field of another name.
CodecFields ==
    {Field("a", value) : value \in CodecValues}
    \cup {Field("", magicValueHistoryCreation), Field("b", IntValue(1))}

\* Timestamps in UTC at and around the ends of the allowed range, and one in
\* another zone.
CodecSignatures ==
    {NewSignature(auditor, t) :
        auditor \in {ZeroAuditor, NewAuditor(<<"k">>, <<"1">>)},
        t \in {ZeroTime, minAllowed, maxAllowed}}
    \cup {NewSignature(ZeroAuditor, t) :
             t \in {UTC(UnixEpoch), UTC(maxAllowed.at + 1),
                    [at |-> minAllowed.at, offset |-> 1]}}

RECURSIVE fieldsBefore(_, _)
\* Number of fields in the first i entries, counts giving those of each entry.
fieldsBefore(counts, i) == IF i = 0 THEN 0 ELSE counts[i] + fieldsBefore(counts, i - 1)

\* The history whose entry i carries sigs[i] and the next counts[i] of fields.
HistoryOf(sigs, counts, fields) ==
    [i \in 1..Len(sigs) |->
        [fields |-> SubSeq(fields, fieldsBefore(counts, i - 1) + 1, fieldsBefore(counts, i)),
         signature |-> sigs[i]]]

\* value is the history to serialize, any history of at most MaxEntries
\* entries and MaxFields fields; history is that of got, a new AuditableValues.
InitCodec ==
    /\ history = <<>>
    /\ obj = Object(NilSlice, ZeroTime)
    /\ last = NoCall
    /\ states = <<>>
    /\ audits = 0
    /\ rolledTo = NotRolledTo
    /\ \E k \in 0..MaxEntries, n \in 0..MaxFields :
          \E sigs \in [1..k -> CodecSignatures], counts \in [1..k -> 0..n] :
             /\ fieldsBefore(counts, k) = n
             /\ \E fields \in [1..n -> CodecFields] :
                   input = [value |-> HistoryOf(sigs, counts, fields)]
    /\ output = NoOutput

\* b, err := value.Serialize()
SerializeStep ==
    /\ last.op = "none"
    /\ output' = Serialize(input.value)
    /\ last' = [op |-> "Serialize", err |-> output'.err, changed |-> FALSE,
                setFieldsCalled |-> FALSE]
    /\ UNCHANGED <<history, obj, states, audits, rolledTo, input>>

\* err := got.Deserialize(b)
DeserializeStep ==
    /\ last.op = "Serialize"
    /\ last.err = NoError
    /\ LET r == Deserialize(history, output.b) IN
       /\ history' = r.history
       /\ last' = [op |-> "Deserialize", err |-> r.err, changed |-> FALSE,
                   setFieldsCalled |-> FALSE]
    /\ UNCHANGED <<obj, states, audits, rolledTo, input, output>>

NextCodec == SerializeStep \/ DeserializeStep

SpecCodec == InitCodec /\ [][NextCodec]_vars

\* A signature the signature codec permits: a timestamp in UTC that is zero
\* or lies from 1 ns after the Unix epoch to 2200-01-01T00:00:00Z.
SignaturePermitted(sig) ==
    /\ sig.timestamp.offset = 0
    /\ \/ sig.timestamp.at = ZeroInstant
       \/ /\ sig.timestamp.at >= UnixEpoch + 1
          /\ sig.timestamp.at <= UnixEpoch + MaxUnixNano

\* A value of one of the 12 shapes, the magic values being the two markers.
ValuePermitted(value) ==
    \/ value \in {magicValueHistoryCreation, magicValueFieldRemoved}
    \/ value.tag \in SupportedTags

HistoryPermitted(h) ==
    \A i \in 1..Len(h) :
        /\ SignaturePermitted(h[i].signature)
        /\ \A j \in 1..Len(h[i].fields) : ValuePermitted(h[i].fields[j].value)

\* The same entries in the same order: equal signatures, and the same field
\* names and values in the same order.
StructurallyEqual(h1, h2) ==
    /\ Len(h1) = Len(h2)
    /\ \A i \in 1..Len(h1) :
          /\ SignatureEqual(h1[i].signature, h2[i].signature)
          /\ Len(h1[i].fields) = Len(h2[i].fields)
          /\ \A j \in 1..Len(h1[i].fields) :
                /\ h1[i].fields[j].name = h2[i].fields[j].name
                /\ h1[i].fields[j].value.tag = h2[i].fields[j].value.tag
                /\ h1[i].fields[j].value.v = h2[i].fields[j].value.v

\* C9: for a history whose field values are of the 12 shapes (both magic
\* values among them) and whose signatures the signature codec permits,
\* Serialize succeeds, and Deserialize of its bytes succeeds and yields a
\* history structurally equal to it: the same entries in the same order, with
\* the same signatures and the same field names, order and values.
C9_RoundTripIsIdentity ==
    HistoryPermitted(input.value)
    => /\ last.op = "Serialize" => last.err = NoError
       /\ last.op = "Deserialize"
          => last.err = NoError /\ StructurallyEqual(history, input.value)

\* A history of two entries was read back: a creation marker and a slice
\* among its values, a signature with an auditor and a timestamp that is not
\* zero.
C9_Witness ==
    /\ last.op = "Deserialize"
    /\ last.err = NoError
    /\ Len(history) = 2
    /\ StructurallyEqual(history, input.value)
    /\ \E i \in 1..2 : history[i].fields = CreationFields
    /\ \E i \in 1..2 : /\ Len(history[i].fields) = 1
                       /\ history[i].fields[1].value.tag = "[]string"
                       /\ Len(history[i].fields[1].value.v) = 2
    /\ \E i \in 1..2 : /\ history[i].signature.auditor # ZeroAuditor
                       /\ history[i].signature.timestamp = maxAllowed

\* ---------------------------------------------------------------------------
\* One Audit call with any old object, new object and signature (SpecAudit)
\* ---------------------------------------------------------------------------

\* The objects a caller may pass: live or rolled back to any time.
AuditObjects == {Object(f, t) : f \in CallerSlices, t \in Times}

\* The history is empty or holds its creation entry; input holds it and the
\* arguments of the call.
InitAudit ==
    /\ input \in [history : {<<>>, CreatedHistory},
                  oldObj : {NoObject} \cup AuditObjects,
                  newObj : AuditObjects,
                  sig : Signatures]
    /\ history = input.history
    /\ obj = Object(NilSlice, ZeroTime)
    /\ last = NoCall
    /\ states = <<>>
    /\ audits = Len(history)
    /\ rolledTo = NotRolledTo
    /\ output = NoOutput

\* values.Audit(oldObj, newObj, sig) with the arguments of input.
AuditOnce ==
    /\ last.op = "none"
    /\ AuditCall(input.oldObj, input.newObj, input.sig)
    /\ UNCHANGED states

NextAudit == AuditOnce

SpecAudit == InitAudit /\ [][NextAudit]_vars

AuditDone == last.op = "Audit"

\* The call gets past the checks of oldObj == nil and of the timestamp.
PassesHistoryChecks ==
    \/ Len(input.history) = 0
    \/ /\ input.oldObj.present
       /\ TimeAfter(input.sig.timestamp,
                    input.history[Len(input.history)].signature.timestamp)

\* C11: on a history that is not empty, Audit of an old object that is
\* present (a nil one is refused before the timestamp is looked at, C13) with
\* a signature whose timestamp is equal to or earlier than that of the
\* latest entry fails with the invalid-signature-timestamp error and leaves
\* the history as it was.
C11_StaleTimestampRefused ==
    (/\ AuditDone
     /\ Len(input.history) > 0
     /\ input.oldObj.present
     /\ ~TimeAfter(input.sig.timestamp,
                   input.history[Len(input.history)].signature.timestamp))
    => /\ last.err = ErrSignatureTimestamp
       /\ ~last.changed
       /\ history = input.history

\* A call with the timestamp of the latest entry and live objects whose
\* fields differ was refused.
C11_Witness ==
    /\ AuditDone
    /\ Len(input.history) > 0
    /\ input.oldObj.present
    /\ TimeEqual(input.sig.timestamp, input.history[1].signature.timestamp)
    /\ TimeIsZero(input.oldObj.tRollback)
    /\ TimeIsZero(input.newObj.tRollback)
    /\ input.oldObj.fields # input.newObj.fields
    /\ last.err = ErrSignatureTimestamp

\* C12: in a call that gets past the checks of oldObj == nil and of the
\* timestamp, if oldObj (when present) or newObj reports a nonzero tRollback
\* from GetFields, Audit fails with the rolled-back-object error, returns
\* changed = false and leaves the history as it was.
C12_RolledBackObjectRefused ==
    (/\ AuditDone
     /\ PassesHistoryChecks
     /\ \/ input.oldObj.present /\ ~TimeIsZero(input.oldObj.tRollback)
        \/ ~TimeIsZero(input.newObj.tRollback))
    => /\ last.err = ErrRolledBackObject
       /\ ~last.changed
       /\ history = input.history

\* A rolled back old object was refused though the new object is live and
\* holds other fields.
C12_Witness ==
    /\ AuditDone
    /\ Len(input.history) > 0
    /\ PassesHistoryChecks
    /\ input.oldObj.present
    /\ ~TimeIsZero(input.oldObj.tRollback)
    /\ TimeIsZero(input.newObj.tRollback)
    /\ input.oldObj.fields # input.newObj.fields
    /\ last.err = ErrRolledBackObject

\* C13: on a history that is not empty, Audit with a nil oldObj fails with
\* the oldObj-cannot-be-nil error and leaves the history as it was, whatever
\* the new object and the signature; on the empty history a nil oldObj with a
\* live new object is accepted and the creation entry is appended.
C13_NilOldObjOnlyOnEmptyHistory ==
    (AuditDone /\ ~input.oldObj.present)
    => IF Len(input.history) > 0
       THEN /\ last.err = ErrOldObjNil
            /\ ~last.changed
            /\ history = input.history
       ELSE TimeIsZero(input.newObj.tRollback)
            => /\ last.err = NoError
               /\ last.changed
               /\ history = <<[fields |-> CreationFields, signature |-> input.sig]>>

\* A nil oldObj was refused on a history with its creation entry, with a
\* live new object and a signature after the latest entry.
C13_Witness ==
    /\ AuditDone
    /\ ~input.oldObj.present
    /\ Len(input.history) > 0
    /\ TimeIsZero(input.newObj.tRollback)
    /\ TimeAfter(input.sig.timestamp, input.history[1].signature.timestamp)
    /\ last.err = ErrOldObjNil

CodecAuditors ==
    {NewAuditor(kind, id) : kind \in {<<>>, <<"k">>, <<"k", "d">>},
                            id \in {<<>>, <<"1">>, <<"1", "2">>}}

\* Timestamps before the zero time, up to 1 ns after maxAllowed, in UTC and in
\* a zone one unit off.
CodecTimes ==
    {[at |-> n, offset |-> o] : n \in (0 - BeforeZero)..(maxAllowed.at + 1), o \in {0, 1}}

\* Signature.Serialize: the bytes, or nil and the error.
SignatureSerialize(sig) ==
    LET r == SerializeToBufRW(sig) IN
    IF r.err # NoError THEN [err |-> r.err, b |-> <<>>] ELSE [err |-> NoError, b |-> r.stream]

\* Signature.Deserialize on a zero Signature: the error and the signature
\* as it is left.
SignatureDeserialize(b) ==
    LET r == DeserializeFromBufRW(b, 1) IN [err |-> r.err, sig |-> r.sig]

InitSignature ==
    /\ history = <<>>
    /\ obj = Object(NilSlice, ZeroTime)
    /\ last = NoCall
    /\ states = <<>>
    /\ audits = 0
    /\ rolledTo = NotRolledTo
    /\ input \in {[sig |-> NewSignature(auditor, t)] : auditor \in CodecAuditors, t \in CodecTimes}
    /\ output = NoOutput

\* b, err := sig.Serialize()
SignatureSerializeStep ==
    /\ last.op = "none"
    /\ LET r == SignatureSerialize(input.sig) IN
       /\ output' = [err |-> r.err, b |-> r.b, got |-> ZeroSignature]
       /\ last' = [op |-> "Signature.Serialize", err |-> r.err, changed |-> FALSE,
                   setFieldsCalled |-> FALSE]
    /\ UNCHANGED <<history, obj, states, audits, rolledTo, input>>

\* err := got.Deserialize(b)
SignatureDeserializeStep ==
    /\ last.op = "Signature.Serialize"
    /\ last.err = NoError
    /\ LET r == SignatureDeserialize(output.b) IN
       /\ output' = [output EXCEPT !.got = r.sig]
       /\ last' = [op |-> "Signature.Deserialize", err |-> r.err, changed |-> FALSE,
                   setFieldsCalled |-> FALSE]
    /\ UNCHANGED <<history, obj, states, audits, rolledTo, input>>

NextSignature == SignatureSerializeStep \/ SignatureDeserializeStep

SpecSignature == InitSignature /\ [][NextSignature]_vars

\* C15: for a signature of a constructible auditor whose timestamp is zero or
\* within the permitted range, in UTC, Serialize succeeds and Deserialize of
\* its bytes succeeds and yields a signature Equal to it; the zero timestamp
\* is written as 0 and read back as the zero timestamp.
C15_SignatureRoundTrip ==
    SignaturePermitted(input.sig)
    => /\ last.op = "Signature.Serialize"
          => /\ last.err = NoError
             /\ TimeIsZero(input.sig.timestamp)
                => output.b[Len(output.b)] = Token("int64", 0)
       /\ last.op = "Signature.Deserialize"
          => /\ last.err = NoError
             /\ SignatureEqual(output.got, input.sig)
             /\ TimeIsZero(input.sig.timestamp) => output.got.timestamp = ZeroTime

\* A signature with a kind, an id and the latest permitted timestamp was
\* read back.
C15_Witness ==
    /\ last.op = "Signature.Deserialize"
    /\ last.err = NoError
    /\ input.sig.auditor = NewAuditor(<<"k", "d">>, <<"1", "2">>)
    /\ input.sig.timestamp = UTC(UnixEpoch + MaxUnixNano)
    /\ output.got = input.sig

\* C16: Signature.Serialize accepts a timestamp in UTC if and only if it is
\* the zero time or lies from 1 ns after the Unix epoch to
\* 2200-01-01T00:00:00Z, both included; any other one, the epoch itself and
\* 1 ns after 2200-01-01T00:00:00Z among them, is rejected with the
\* out-of-bounds error.
C16_TimestampRange ==
    (last.op = "Signature.Serialize" /\ input.sig.timestamp.offset = 0)
    => IF \/ input.sig.timestamp.at = ZeroInstant
          \/ /\ input.sig.timestamp.at >= UnixEpoch + 1
             /\ input.sig.timestamp.at <= UnixEpoch + MaxUnixNano
       THEN last.err = NoError
       ELSE last.err = ErrTimestampBounds /\ output.b = <<>>

\* The Unix epoch itself was rejected.
C16_Witness ==
    /\ last.op = "Signature.Serialize"
    /\ input.sig.timestamp = UTC(UnixEpoch)
    /\ last.err = ErrTimestampBounds

\* ---------------------------------------------------------------------------
\* The queries on a history (SpecQuery)
\* ---------------------------------------------------------------------------

\* AuditableValues.CreationSignature
CreationSignature(h) == IF Len(h) = 0 THEN ZeroSignature ELSE h[1].signature

\* AuditableValues.Signatures
SignaturesOf(h) == [i \in 1..Len(h) |-> h[i].signature]

\* An entry has a field named fieldName.
mentions(entry, fieldName) ==
    \E j \in 1..Len(entry.fields) : entry.fields[j].name = fieldName

RECURSIVE latestEntryWith_Ascending(_, _, _)
\* A bug LatestSignatureForField could have: the entries are scanned in
\* ascending order, from the first update on.
latestEntryWith_Ascending(h, i, fieldName) ==
    IF \E k \in 2..Len(h) : mentions(h[k], fieldName)
    THEN CHOOSE k \in 2..Len(h) :
             /\ mentions(h[k], fieldName)
             /\ \A j \in 2..(k - 1) : ~mentions(h[j], fieldName)
    ELSE 0

RECURSIVE latestEntryWith(_, _, _)
\* The loop of LatestSignatureForField from entry i down to the second
\* entry: the first entry met that has the field, 0 when there is none.
latestEntryWith(h, i, fieldName) ==
    IF i <= 1 THEN 0
    ELSE IF mentions(h[i], fieldName) THEN i
    ELSE latestEntryWith(h, i - 1, fieldName)

\* AuditableValues.LatestSignatureForField
LatestSignatureForField(h, fieldName) ==
    LET i == latestEntryWith(h, Len(h), fieldName) IN
    IF i # 0 THEN h[i].signature ELSE CreationSignature(h)

RECURSIVE signaturesWith(_, _, _)
\* The loop of SignaturesForField, over every entry from entry i on.
signaturesWith(h, i, fieldName) ==
    IF i > Len(h) THEN <<>>
    ELSE (IF mentions(h[i], fieldName) THEN <<h[i].signature>> ELSE <<>>)
         \o signaturesWith(h, i + 1, fieldName)

\* AuditableValues.SignaturesForField
SignaturesForField(h, fieldName) ==
    <<CreationSignature(h)>> \o signaturesWith(h, 1, fieldName)

\* The fields of the entries Audit appends: the creation field, or fields
\* named "a" and "b".
QueryEntryFields ==
    {CreationFields,
     <<Field("a", IntValue(1))>>,
     <<Field("b", IntValue(1))>>,
     <<Field("a", IntValue(1)), Field("b", IntValue(2))>>}

\* The names asked for: the empty name, names of fields, and a name that no
\* entry holds.
QueryNames == {"", "a", "b", "z"}

\* history is any history of at most MaxHistory entries with increasing
\* timestamps; input holds the name to ask for.
InitQuery ==
    /\ \E k \in 0..MaxHistory :
          \E ts \in [1..k -> Times], fs \in [1..k -> QueryEntryFields] :
             /\ \A i \in 1..(k - 1) : TimeBefore(ts[i], ts[i + 1])
             /\ history = [i \in 1..k |->
                              [fields |-> fs[i],
                               signature |-> NewSignature(ZeroAuditor, ts[i])]]
    /\ obj = Object(NilSlice, ZeroTime)
    /\ last = NoCall
    /\ states = <<>>
    /\ audits = Len(history)
    /\ rolledTo = NotRolledTo
    /\ input \in {[fieldName |-> name] : name \in QueryNames}
    /\ output = NoOutput

\* The four queries, with the name of input.
QueryStep ==
    /\ last.op = "none"
    /\ output' = [creation |-> CreationSignature(history),
                  signatures |-> SignaturesOf(history),
                  latestForField |-> LatestSignatureForField(history, input.fieldName),
                  forField |-> SignaturesForField(history, input.fieldName)]
    /\ last' = [op |-> "Query", err |-> NoError, changed |-> FALSE,
                setFieldsCalled |-> FALSE]
    /\ UNCHANGED <<history, obj, states, audits, rolledTo, input>>

NextQuery == QueryStep

SpecQuery == InitQuery /\ [][NextQuery]_vars

QueryDone == last.op = "Query"

RECURSIVE IsSubsequence(_, _)
\* s is t with some of its elements left out.
IsSubsequence(s, t) ==
    IF Len(s) = 0 THEN TRUE
    ELSE IF Len(t) = 0 THEN FALSE
    ELSE IF Head(s) = Head(t) THEN IsSubsequence(Tail(s), Tail(t))
    ELSE IsSubsequence(s, Tail(t))

\* The update entries (every entry but the first) that have a field named
\* as input asks, in ascending order.
UpdatesMentioning ==
    LET Asked(i) == i >= 2 /\ mentions(history[i], input.fieldName)
        RECURSIVE From(_)
        From(i) == IF i > Len(history) THEN <<>>
                   ELSE (IF Asked(i) THEN <<i>> ELSE <<>>) \o From(i + 1)
    IN  From(1)

\* C17 as claimed: for every history and every field name,
\* SignaturesForField is a subsequence of Signatures that begins with
\* CreationSignature, and its other elements are the signatures of exactly the
\* update entries that mention the name, in ascending order.
C17_SignaturesForFieldOfUpdates ==
    QueryDone
    => /\ IsSubsequence(output.forField, output.signatures)
       /\ output.forField =
             <<output.creation>>
             \o [n \in 1..Len(UpdatesMentioning) |->
                    history[UpdatesMentioning[n]].signature]

\* C18: for every history with strictly increasing timestamps and every field
\* name, LatestSignatureForField is CreationSignature if and only if no
\* update entry has a field of that name, and else the signature of the last
\* update entry that has one.
C18_LatestSignatureForField ==
    QueryDone
    => IF Len(UpdatesMentioning) = 0
       THEN output.latestForField = output.creation
       ELSE /\ output.latestForField # output.creation
            /\ output.latestForField =
                  history[UpdatesMentioning[Len(UpdatesMentioning)]].signature

\* Of three updates the first two have the field asked for.
C18_Witness ==
    /\ QueryDone
    /\ Len(history) = 3
    /\ UpdatesMentioning = <<2>>
    /\ mentions(history[1], input.fieldName)
    /\ output.latestForField = history[2].signature

\* ---------------------------------------------------------------------------
\* Audit and RollbackTo on objects whose GetFields and SetFields may fail
\* (SpecFallible)
\* ---------------------------------------------------------------------------

\* The errors of the caller's object.
ErrGetFields == "GetFields failed"

ErrSetFields == "SetFields failed"

\* A bug RollbackTo could have: the error of GetFields is returned as it is,
\* without the text RollbackTo puts before it.
ErrRollingBack_Verbatim(err) == err

\* fmt.Errorf("error rolling back object: %w", err)
ErrRollingBack(err) == "error rolling back object: " \o err

\* An object whose GetFields returns getErr and whose SetFields returns setErr.
FallibleObject(fields, tRollback, getErr, setErr) ==
    [present |-> TRUE, fields |-> fields, tRollback |-> tRollback,
     getErr |-> getErr, setErr |-> setErr]

NoFallibleObject ==
    [present |-> FALSE, fields |-> NilSlice, tRollback |-> ZeroTime,
     getErr |-> NoError, setErr |-> NoError]

\* Audit(oldObj, newObj, sig) on history h, the errors of GetFields included:
\* each is returned where Audit calls GetFields.
AuditOfFallible(h, oldObj, newObj, sig) ==
    IF oldObjMissing(h, oldObj) \/ (Len(h) > 0 /\ signatureNotAfterLatest(h, sig))
    THEN Audit(h, oldObj, newObj, sig)
    ELSE IF oldObj.present /\ oldObj.getErr # NoError
    THEN AuditResult(h, FALSE, oldObj.getErr)
    ELSE IF oldObj.present /\ rolledBack(GetFields(oldObj))
    THEN Audit(h, oldObj, newObj, sig)
    ELSE IF newObj.getErr # NoError
    THEN AuditResult(h, FALSE, newObj.getErr)
    ELSE Audit(h, oldObj, newObj, sig)

\* RollbackTo(obj, t) on history h, the errors of GetFields and SetFields
\* included; an object whose SetFields fails is left as it was.
RollbackToOfFallible(h, object, t) ==
    IF Len(h) = 0 \/ beforeCreation(h, t)
    THEN RollbackTo(h, object, t)
    ELSE IF object.getErr # NoError
    THEN RollbackResult(ErrRollingBack(object.getErr), FALSE, object)
    ELSE LET r == RollbackTo(h, object, t) IN
         IF r.err = NoError /\ object.setErr # NoError
         THEN RollbackResult(object.setErr, TRUE, object)
         ELSE r

FallibleObjects ==
    {FallibleObject(f, t, getErr, setErr) :
        f \in {NilSlice, Slice(<<Field("a", IntValue(1))>>), Slice(<<Field("a", IntValue(2))>>)},
        t \in {ZeroTime, UTC(MaxTime)},
        getErr \in {NoError, ErrGetFields},
        setErr \in {NoError, ErrSetFields}}

\* input holds the history and the arguments of one call of Audit or of
\* RollbackTo.
InitFallible ==
    /\ input \in [history : {<<>>, CreatedHistory},
                  oldObj : {NoFallibleObject} \cup FallibleObjects,
                  obj : FallibleObjects,
                  sig : {NewSignature(ZeroAuditor, t) : t \in {UTC(1), UTC(2)}},
                  t : Times]
    /\ history = input.history
    /\ obj = input.obj
    /\ last = NoCall
    /\ states = <<>>
    /\ audits = Len(history)
    /\ rolledTo = NotRolledTo
    /\ output = NoOutput

\* values.Audit(oldObj, obj, sig)
AuditFallibleStep ==
    /\ last.op = "none"
    /\ LET r == AuditOfFallible(history, input.oldObj, obj, input.sig) IN
       /\ history' = r.history
       /\ last' = [op |-> "Audit", err |-> r.err, changed |-> r.changed,
                   setFieldsCalled |-> FALSE]
       /\ audits' = IF r.changed THEN audits + 1 ELSE audits
    /\ UNCHANGED <<obj, states, rolledTo, input, output>>

\* values.RollbackTo(obj, t)
RollbackFallibleStep ==
    /\ last.op = "none"
    /\ LET r == RollbackToOfFallible(history, obj, input.t) IN
       /\ obj' = r.obj
       /\ last' = [op |-> "RollbackTo", err |-> r.err, changed |-> FALSE,
                   setFieldsCalled |-> r.setFieldsCalled]
       /\ rolledTo' = IF r.err = NoError THEN [some |-> TRUE, t |-> input.t] ELSE rolledTo
    /\ UNCHANGED <<history, states, audits, input, output>>

NextFallible == AuditFallibleStep \/ RollbackFallibleStep

SpecFallible == InitFallible /\ [][NextFallible]_vars

\* Audit called GetFields of the old object, and it failed.
OldGetFieldsFailed ==
    /\ last.op = "Audit"
    /\ PassesHistoryChecks
    /\ input.oldObj.present
    /\ input.oldObj.getErr # NoError

\* Audit called GetFields of the new object, and it failed.
NewGetFieldsFailed ==
    /\ last.op = "Audit"
    /\ PassesHistoryChecks
    /\ input.oldObj.present
       => input.oldObj.getErr = NoError /\ TimeIsZero(input.oldObj.tRollback)
    /\ input.obj.getErr # NoError

\* RollbackTo called GetFields of the object, and it failed.
RollbackGetFieldsFailed ==
    /\ last.op = "RollbackTo"
    /\ Len(input.history) > 0
    /\ ~TimeBefore(input.t, input.history[1].signature.timestamp)
    /\ input.obj.getErr # NoError

\* RollbackTo called SetFields of the object, and it failed.
RollbackSetFieldsFailed ==
    /\ last.op = "RollbackTo"
    /\ Len(input.history) > 0
    /\ ~TimeBefore(input.t, input.history[1].signature.timestamp)
    /\ input.obj.getErr = NoError
    /\ TimeIsZero(input.obj.tRollback) \/ ~TimeBefore(input.obj.tRollback, input.t)
    /\ input.obj.setErr # NoError

\* C19 as claimed: an error that GetFields or SetFields of the object returns
\* during Audit or RollbackTo is what the call returns, the same error and
\* not one that wraps it or words it anew.
C19_ObjectErrorsVerbatim ==
    /\ OldGetFieldsFailed => last.err = input.oldObj.getErr
    /\ NewGetFieldsFailed => last.err = input.obj.getErr
    /\ RollbackGetFieldsFailed => last.err = input.obj.getErr
    /\ RollbackSetFieldsFailed => last.err = input.obj.setErr

\* C19 as amended: Audit returns an error of GetFields as it is, and
\* RollbackTo returns an error of SetFields as it is; an error of GetFields
\* during RollbackTo is returned wrapped, as "error rolling back object: "
\* followed by its text. None of these calls changes the history.
C19_ObjectErrorsVerbatimOrWrapped ==
    /\ OldGetFieldsFailed => last.err = input.oldObj.getErr /\ ~last.changed
    /\ NewGetFieldsFailed => last.err = input.obj.getErr /\ ~last.changed
    /\ RollbackGetFieldsFailed
       => /\ last.err = "error rolling back object: " \o input.obj.getErr
          /\ ~last.setFieldsCalled
    /\ RollbackSetFieldsFailed => last.err = input.obj.setErr /\ last.setFieldsCalled
    /\ (OldGetFieldsFailed \/ NewGetFieldsFailed \/ RollbackGetFieldsFailed
        \/ RollbackSetFieldsFailed)
       => history = input.history

\* RollbackTo of a rolled back object on a history with its creation entry
\* got an error from GetFields.
C19_Witness ==
    /\ RollbackGetFieldsFailed
    /\ ~TimeIsZero(input.obj.tRollback)
    /\ last.err = ErrRollingBack(ErrGetFields)

\* ---------------------------------------------------------------------------
\* SerializeTo on a writer that fails (SpecWriter)
\* ---------------------------------------------------------------------------

\* Most writes of one call: a failing write is one of the first MaxWrites.
MaxWrites == 19

\* The error of the underlying writer.
ErrWrite == "write failed"

\* The cases of the type switch of SerializeTo written "if err := ...": the
\* err they assign is a new variable of the if statement, not the err that
\* is tested after the switch.
ShadowedTags == {"bool", "[]string", "[]bool", "[]int", "[]int64", "[]float64", "[]byte"}

\* One step of SerializeTo: a write of token, with what the code does when
\* the write fails: "return" the error, "skip" the write that follows and go
\* on, or "drop" the error and go on.
WriteOp(token, onErr) == [kind |-> "write", token |-> token, onErr |-> onErr, err |-> NoError]

\* One step of SerializeTo: return err without writing.
ErrorOp(err) == [kind |-> "error", token |-> Token("byte", 0), onErr |-> "return", err |-> err]

\* w.WriteSerializable(&obj.signature): the writes of SerializeToBufRW, each
\* error returned, and the error of its checks.
signatureOps(sig) ==
    LET r == SerializeToBufRW(sig) IN
    [i \in 1..Len(r.stream) |-> WriteOp(r.stream[i], "return")]
    \o (IF r.err # NoError THEN <<ErrorOp(r.err)>> ELSE <<>>)

\* The type switch of SerializeTo and the test of err after it.
valueOps(value) ==
    LET r == writeValue(value) IN
    IF r.err # NoError THEN <<ErrorOp(r.err)>>
    ELSE IF value.tag \in ShadowedTags
    THEN <<WriteOp(r.stream[1], "skip"), WriteOp(r.stream[2], "drop")>>
    ELSE <<WriteOp(r.stream[1], "return"), WriteOp(r.stream[2], "return")>>

RECURSIVE fieldsOps(_, _, _)
\* The loop of SerializeTo over the fields of one entry, from field j on.
fieldsOps(fields, j, fieldNames) ==
    IF j > Len(fields) THEN <<>>
    ELSE <<WriteOp(Token("int", stringSliceIndexOf(fieldNames, fields[j].name)), "return")>>
         \o valueOps(fields[j].value)
         \o fieldsOps(fields, j + 1, fieldNames)

RECURSIVE historyOps(_, _, _)
\* The loop of SerializeTo over the history, from entry i on.
historyOps(h, i, fieldNames) ==
    IF i > Len(h) THEN <<>>
    ELSE signatureOps(h[i].signature)
         \o <<WriteOp(Token("int", Len(h[i].fields)), "return")>>
         \o fieldsOps(h[i].fields, 1, fieldNames)
         \o historyOps(h, i + 1, fieldNames)

\* The steps of SerializeTo in the order of the code.
serializeOps(h) ==
    LET fieldNames == internNames(allFields(h, 1), 1, <<>>) IN
    <<WriteOp(Token("byte", 1), "return"), WriteOp(Token("int", Len(fieldNames)), "return")>>
    \o [i \in 1..Len(fieldNames) |-> WriteOp(Token("string", fieldNames[i]), "return")]
    \o <<WriteOp(Token("int", Len(h)), "return")>>
    \o historyOps(h, 1, fieldNames)

RECURSIVE runOps(_, _, _, _, _, _, _)
\* SerializeTo from step i on, after count writes of which one failed if
\* failed: the write number failAt fails, and every later one too if the
\* writer keeps its error (sticky).
runOps(ops, i, count, failed, failAt, sticky, stream) ==
    IF i > Len(ops) THEN [err |-> NoError, stream |-> stream, failed |-> failed]
    ELSE IF ops[i].kind = "error"
    THEN [err |-> ops[i].err, stream |-> stream, failed |-> failed]
    ELSE IF count + 1 = failAt \/ (sticky /\ failed)
    THEN IF ops[i].onErr = "return"
         THEN [err |-> ErrWrite, stream |-> stream, failed |-> TRUE]
         ELSE IF ops[i].onErr = "skip"
         THEN runOps(ops, i + 2, count + 1, TRUE, failAt, sticky, stream)
         ELSE runOps(ops, i + 1, count + 1, TRUE, failAt, sticky, stream)
    ELSE runOps(ops, i + 1, count + 1, failed, failAt, sticky, Append(stream, ops[i].token))

\* AuditableValues.SerializeTo on a writer whose write number failAt fails
\* (none if failAt = 0): the error returned, what was written, and whether a
\* write failed.
SerializeToFailing(h, failAt, sticky) == runOps(serializeOps(h), 1, 0, FALSE, failAt, sticky, <<>>)

\* A signature SerializeToBufRW accepts, and one in a zone it refuses.
WriterSignatures ==
    {NewSignature(ZeroAuditor, minAllowed),
     NewSignature(ZeroAuditor, [at |-> minAllowed.at, offset |-> 1])}

\* input holds the history to serialize and the write that fails.
InitWriter ==
    /\ history = <<>>
    /\ obj = Object(NilSlice, ZeroTime)
    /\ last = NoCall
    /\ states = <<>>
    /\ audits = 0
    /\ rolledTo = NotRolledTo
    /\ \E k \in 0..MaxEntries, n \in 0..MaxFields :
          \E sigs \in [1..k -> WriterSignatures], counts \in [1..k -> 0..n] :
             /\ fieldsBefore(counts, k) = n
             /\ \E fields \in [1..n -> CodecFields], failAt \in 0..MaxWrites,
                   sticky \in BOOLEAN :
                   input = [value |-> HistoryOf(sigs, counts, fields),
                            failAt |-> failAt, sticky |-> sticky]
    /\ output = NoOutput

\* err := value.SerializeTo(w)
SerializeToStep ==
    /\ last.op = "none"
    /\ output' = SerializeToFailing(input.value, input.failAt, input.sticky)
    /\ last' = [op |-> "SerializeTo", err |-> output'.err, changed |-> FALSE,
                setFieldsCalled |-> FALSE]
    /\ UNCHANGED <<history, obj, states, audits, rolledTo, input>>

NextWriter == SerializeToStep

SpecWriter == InitWriter /\ [][NextWriter]_vars

\* On a writer that does not fail, SerializeToFailing is SerializeTo.
WriterAgreesWithSerializeTo ==
    (last.op = "SerializeTo" /\ input.failAt = 0)
    => LET r == SerializeTo(input.value) IN
       /\ output.err = r.err
       /\ r.err = NoError => output.stream = r.stream

\* C20 as claimed: when the writer reports an error on a write that
\* SerializeTo performs, whatever the write, SerializeTo returns an error.
C20_WriterErrorsSurface ==
    (last.op = "SerializeTo" /\ output.failed) => output.err # NoError

\* When no field has a value of the cases "if err := ..." of the type switch,
\* an error of the writer is returned.
CheckedWriteErrorsSurface ==
    (last.op = "SerializeTo" /\ output.failed /\ ~input.sticky
        /\ LET ops == serializeOps(input.value) IN
           \A i \in 1..Len(ops) : ops[i].onErr = "return")
    => output.err = ErrWrite

\* ---------------------------------------------------------------------------
\* DeserializeFrom on streams that SerializeTo did not write (SpecDecode)
\* ---------------------------------------------------------------------------

\* The stream of a history of one entry with one field, as SerializeTo lays it
\* out, with any version byte, name table, name index and type tag; the
\* payload is of the kind the tag asks for, and a byte when the tag is not
\* one of the switch.
DecodeStream(version, names, nameIndex, valueType) ==
    <<Token("byte", version), Token("int", Len(names))>>
    \o [i \in 1..Len(names) |-> Token("string", names[i])]
    \o <<Token("int", 1)>>
    \o SerializeToBufRW(NewSignature(ZeroAuditor, minAllowed)).stream
    \o <<Token("int", 1), Token("int", nameIndex), Token("byte", valueType),
         Token(IF valueType \in 0..(Len(TypeTags) - 1) THEN PayloadKinds[valueType + 1]
               ELSE "byte",
               IF valueType \in 0..(Len(TypeTags) - 1)
                  /\ TypeTags[valueType + 1] \notin ScalarTags
               THEN <<1>> ELSE 1)>>

\* input holds the stream and what it was made of; history is that of the
\* receiver, a new AuditableValues.
InitDecode ==
    /\ history = <<>>
    /\ obj = Object(NilSlice, ZeroTime)
    /\ last = NoCall
    /\ states = <<>>
    /\ audits = Len(history)
    /\ rolledTo = NotRolledTo
    /\ \E version \in 0..2, names \in {<<>>, <<"a">>, <<"a", "b">>},
          nameIndex \in (0 - 1)..2, valueType \in 0..Len(TypeTags) :
          input = [stream |-> DecodeStream(version, names, nameIndex, valueType),
                   version |-> version, names |-> names, nameIndex |-> nameIndex,
                   valueType |-> valueType]
    /\ output = NoOutput

\* err := values.DeserializeFrom(r)
DeserializeFromStep ==
    /\ last.op = "none"
    /\ LET r == DeserializeFrom(history, input.stream) IN
       /\ history' = r.history
       /\ last' = [op |-> "DeserializeFrom", err |-> r.err, changed |-> FALSE,
                   setFieldsCalled |-> FALSE]
    /\ UNCHANGED <<obj, states, audits, rolledTo, input, output>>

NextDecode == DeserializeFromStep

SpecDecode == InitDecode /\ [][NextDecode]_vars

\* The call returned an error: it did not succeed and did not panic.
ReturnedError == last.err # NoError /\ last.err # Panic

\* No entry of the receiver holds a field.
NoFieldProduced == \A i \in 1..Len(history) : Len(history[i].fields) = 0

\* C21 as claimed: DeserializeFrom returns an error, without a crash and
\* without a field produced, when the name index of a field is outside the
\* name table, when the version byte is not 1, and when the type tag is not
\* one of 0..11.
C21_BadStreamIsAnError ==
    (/\ last.op = "DeserializeFrom"
     /\ \/ input.version # 1
        \/ input.nameIndex < 0
        \/ input.nameIndex >= Len(input.names)
        \/ input.valueType > 11)
    => ReturnedError /\ NoFieldProduced

\* The part of C21 about the version byte and the type tag: with a name index
\* inside the table, a version other than 1 gives "invalid version number"
\* and a type tag above 11 gives "invalid value type", and no field is
\* produced.
C21_BadVersionOrTagIsAnError ==
    (/\ last.op = "DeserializeFrom"
     /\ input.nameIndex >= 0
     /\ input.nameIndex < Len(input.names))
    => /\ input.version # 1 => last.err = ErrInvalidVersion
       /\ (input.version = 1 /\ input.valueType > 11)
          => last.err = ErrInvalidValueType /\ NoFieldProduced
       /\ (input.version = 1 /\ input.valueType <= 11) => last.err = NoError

\* C22: when the field lists that GetFields returns have unique names, the
\* names of the fields of each history entry are unique, the entry that an
\* Audit of any old and new field list appends included.
C22_EntryNamesUnique ==
    \A k \in 1..Len(history) :
        \A i, j \in 1..Len(history[k].fields) :
            i # j => history[k].fields[i].name # history[k].fields[j].name

\* Audit appended an entry of three fields: one removed, one changed and one
\* added.
C22_Witness ==
    /\ DiffDone
    /\ Len(history) = 2
    /\ Len(history[2].fields) = 3
    /\ RemovedNames # {}
    /\ ChangedNames # {}
    /\ AddedNames # {}

\* C23: after any sequence of calls no history entry has an empty list of
\* fields; an Audit for which getHistoryFields returns no field appends
\* nothing.
C23_NoEmptyEntry ==
    /\ \A k \in 1..Len(history) : Len(history[k].fields) > 0
    /\ audits = Len(history)

\* An Audit on a history with entries found no changed field: it returned
\* false and nil after other audits had appended entries.
C23_Witness ==
    /\ last.op = "Audit"
    /\ last.err = NoError
    /\ ~last.changed
    /\ Len(history) = MaxHistory
    /\ history[MaxHistory].fields[1].name = "a"

\* ---------------------------------------------------------------------------
\* Auditor.Encode and Auditor.Decode (SpecAuditor)
\* ---------------------------------------------------------------------------

\* Longest string given to Decode.
MaxLen == 3

\* Auditor.Decode(src) on the receiver auditor: the error and the receiver
\* after the call.
AuditorDecode(auditor, src) ==
    LET split == Split(src) IN
    IF Len(split) # 2
    THEN [err |-> ErrInvalidAuditor, auditor |-> auditor]
    ELSE [err |-> NoError, auditor |-> NewAuditor(split[1], split[2])]

\* The Auditors that can be constructed: the zero Auditor and NewAuditor of a
\* kind and an id without "/" (NewAuditor panics on the others).
ConstructibleAuditors ==
    {NewAuditor(kind, id) : kind \in {<<>>, <<"k">>, <<"k", "d">>},
                            id \in {<<>>, <<"1">>, <<"1", "2">>}}

\* The strings of at most MaxLen characters over a letter and "/".
EncodedStrings == UNION {[1..n -> {"a", "/"}] : n \in 0..MaxLen}

NumberOfSlashes(src) == Cardinality({i \in 1..Len(src) : src[i] = "/"})

\* input holds an Auditor to encode, a string to decode and the receiver of
\* Decode.
InitAuditor ==
    /\ history = <<>>
    /\ obj = Object(NilSlice, ZeroTime)
    /\ last = NoCall
    /\ states = <<>>
    /\ audits = 0
    /\ rolledTo = NotRolledTo
    /\ input \in [auditor : ConstructibleAuditors,
                  src : EncodedStrings,
                  receiver : {ZeroAuditor, NewAuditor(<<"k">>, <<"1">>)}]
    /\ output = NoOutput

\* err := got.Decode(auditor.Encode())
EncodeDecodeStep ==
    /\ last.op = "none"
    /\ output' = AuditorDecode(input.receiver, Encode(input.auditor))
    /\ last' = [op |-> "EncodeDecode", err |-> output'.err, changed |-> FALSE,
                setFieldsCalled |-> FALSE]
    /\ UNCHANGED <<history, obj, states, audits, rolledTo, input>>

\* err := got.Decode(src)
DecodeStep ==
    /\ last.op = "none"
    /\ output' = AuditorDecode(input.receiver, input.src)
    /\ last' = [op |-> "Decode", err |-> output'.err, changed |-> FALSE,
                setFieldsCalled |-> FALSE]
    /\ UNCHANGED <<history, obj, states, audits, rolledTo, input>>

NextAuditor == EncodeDecodeStep \/ DecodeStep

SpecAuditor == InitAuditor /\ [][NextAuditor]_vars

\* C24: for every Auditor that can be constructed, Decode of its Encode
\* succeeds and gives an equal Auditor; Decode of a string that does not hold
\* exactly one "/" fails and leaves the receiver as it was.
C24_AuditorRoundTrip ==
    /\ last.op = "EncodeDecode"
       => /\ last.err = NoError
          /\ output.auditor.kind = input.auditor.kind
          /\ output.auditor.id = input.auditor.id
    /\ (last.op = "Decode" /\ NumberOfSlashes(input.src) # 1)
       => /\ last.err = ErrInvalidAuditor
          /\ output.auditor = input.receiver
    /\ (last.op = "Decode" /\ NumberOfSlashes(input.src) = 1)
       => last.err = NoError

\* An Auditor with an empty kind and a non-empty id was encoded and decoded
\* into a receiver that held another Auditor.
C24_Witness ==
    /\ last.op = "EncodeDecode"
    /\ input.auditor.kind = <<>>
    /\ input.auditor.id = <<"1", "2">>
    /\ input.receiver # ZeroAuditor
    /\ output.auditor = input.auditor

\* The stream that Serialize returned, read as SerializeTo lays it out: the
\* name table, and the position of the name index of field j of entry i.
WrittenNames == [i \in 1..output.b[2].v |-> output.b[2 + i].v]

RECURSIVE TokensBefore(_)
\* Number of tokens of the entries before entry i: a signature of three
\* tokens, the number of fields, and three tokens for each field.
TokensBefore(i) ==
    IF i <= 1 THEN 0 ELSE TokensBefore(i - 1) + 4 + 3 * Len(input.value[i - 1].fields)

WrittenNameIndex(i, j) ==
    output.b[3 + Len(WrittenNames) + TokensBefore(i) + 4 + 3 * (j - 1) + 1].v

\* Position of the first field named name among all fields of the history.
FirstOccurrence(name) ==
    LET fields == allFields(input.value, 1) IN
    CHOOSE i \in 1..Len(fields) :
        fields[i].name = name /\ \A j \in 1..(i - 1) : fields[j].name # name

\* C25: the name table that SerializeTo writes holds each field name of the
\* history once, the empty name of the creation field included, in the order
\* of the first field of each name; the name index written for a field is
\* the index, inside the table, of the name of that field.
C25_NameTableInterning ==
    (last.op = "Serialize" /\ last.err = NoError)
    => /\ {WrittenNames[i] : i \in 1..Len(WrittenNames)}
           = UNION {{input.value[i].fields[j].name : j \in 1..Len(input.value[i].fields)} :
                       i \in 1..Len(input.value)}
       /\ \A i, j \in 1..Len(WrittenNames) :
             /\ i # j => WrittenNames[i] # WrittenNames[j]
             /\ i < j => FirstOccurrence(WrittenNames[i]) < FirstOccurrence(WrittenNames[j])
       /\ \A i \in 1..Len(input.value) :
             \A j \in 1..Len(input.value[i].fields) :
                /\ WrittenNameIndex(i, j) \in 0..(Len(WrittenNames) - 1)
                /\ WrittenNames[WrittenNameIndex(i, j) + 1] = input.value[i].fields[j].name

\* A history of two entries was serialized whose fields are named "b" and
\* then "": the table holds the two names in that order.
C25_Witness ==
    /\ last.op = "Serialize"
    /\ last.err = NoError
    /\ Len(input.value) = 2
    /\ Len(input.value[1].fields) = 1
    /\ Len(input.value[2].fields) = 1
    /\ input.value[1].fields[1].name = "b"
    /\ input.value[2].fields[1].name = ""
    /\ WrittenNames = <<"b", "">>
    /\ WrittenNameIndex(2, 1) = 1

\* C26 as claimed: after a successful RollbackTo(obj, t), whatever t and
\* whatever the creation timestamp, an Audit of obj with a signature after
\* the latest entry fails with "cannot audit based on a rolled back object"
\* and appends nothing.
C26_RolledBackObjectIsMarked ==
    [][\A oldObj \in OldObjects, sig \in Signatures :
          (/\ rolledTo.some
           /\ oldObj.present
           /\ TimeAfter(sig.timestamp, Timestamp(Len(history)))
           /\ AuditStep(oldObj, sig))
          => /\ last'.err = ErrRolledBackObject
             /\ history' = history]_vars

\* The same for the rollbacks to a time other than the zero time.
RolledBackToNonZeroIsMarked ==
    [][\A oldObj \in OldObjects, sig \in Signatures :
          (/\ rolledTo.some
           /\ ~TimeIsZero(rolledTo.t)
           /\ oldObj.present
           /\ TimeAfter(sig.timestamp, Timestamp(Len(history)))
           /\ AuditStep(oldObj, sig))
          => /\ last'.err = ErrRolledBackObject
             /\ history' = history]_vars

\* ---------------------------------------------------------------------------
\* Signature.SerializeToBufRW and what it leaves on its writer
\* (SpecSignatureWriter)
\* ---------------------------------------------------------------------------

\* err := sig.SerializeToBufRW(w, buf), w empty before the call; output holds
\* what w received.
SerializeToBufRWStep ==
    /\ last.op = "none"
    /\ output' = SerializeToBufRW(input.sig)
    /\ last' = [op |-> "SerializeToBufRW", err |-> output'.err, changed |-> FALSE,
                setFieldsCalled |-> FALSE]
    /\ UNCHANGED <<history, obj, states, audits, rolledTo, input>>

NextSignatureWriter == SerializeToBufRWStep

SpecSignatureWriter == InitSignature /\ [][NextSignatureWriter]_vars

\* C27 as claimed: when the timestamp of the signature is in a zone with an
\* offset other than 0, or is out of bounds, SerializeToBufRW returns the
\* error and has written nothing to its writer.
C27_ValidatesBeforeWriting ==
    (last.op = "SerializeToBufRW" /\ last.err \in {ErrTimestampZone, ErrTimestampBounds})
    => output.stream = <<>>

\* The part of C27 about the zone: nothing is written when the offset is
\* not 0; an out of bounds timestamp in UTC is refused after the version and
\* the auditor were written.
ZoneCheckedBeforeWriting ==
    last.op = "SerializeToBufRW"
    => /\ input.sig.timestamp.offset # 0
          => last.err = ErrTimestampZone /\ output.stream = <<>>
       /\ last.err = ErrTimestampBounds
          => output.stream = <<Token("int", 1), Token("string", Encode(input.sig.auditor))>>

\* C28: RollbackTo on an empty history fails with "invalid state: empty
\* history", whatever t and whatever the object, and calls neither GetFields
\* nor SetFields: an object whose GetFields or SetFields fails, live or
\* rolled back, gets this error and is left as it was.
C28_EmptyHistoryRefused ==
    (last.op = "RollbackTo" /\ Len(input.history) = 0)
    => /\ last.err = "invalid state: empty history"
       /\ ~last.setFieldsCalled
       /\ obj = input.obj
       /\ history = <<>>

\* RollbackTo on the empty history of a rolled back object whose GetFields
\* and SetFields fail.
C28_Witness ==
    /\ last.op = "RollbackTo"
    /\ Len(input.history) = 0
    /\ input.obj.getErr = ErrGetFields
    /\ input.obj.setErr = ErrSetFields
    /\ ~TimeIsZero(input.obj.tRollback)
    /\ last.err = ErrEmptyHistory

\* The live objects that hold the state audited by entry k, their fields in
\* any order.
LiveObjectsAt(k) == {Object(f, ZeroTime) : f \in {g \in UsageSlices : FieldSet(g) = states[k]}}

\* The objects that an earlier successful RollbackTo(obj, r) left, called on
\* a live object holding the latest state when the history had its first n1
\* entries, and that reflect the state of the history at r.
RolledBackObjectsAt(r) ==
    {o \in UNION {{RollbackTo(SubSeq(history, 1, n1), live, r).obj :
                     live \in LiveObjectsAt(n1)} : n1 \in 1..Len(history)} :
        /\ o.tRollback = r
        /\ FieldSet(o.fields) = states[EntryAt(r)]}

\* C29: for an object that an earlier successful RollbackTo(obj, r) left and
\* that reflects the state of the history at r, entries appended since or
\* not, and for t from the creation timestamp to r, RollbackTo(obj, t)
\* succeeds and leaves the set of fields that RollbackTo(t) leaves on a live
\* object holding the latest state; with t = r it leaves the set of fields
\* the object had.
C29_RollbackPathIndependent ==
    \A r, t \in Times :
        (/\ Len(history) > 0
         /\ ~TimeBefore(t, Timestamp(1))
         /\ ~TimeAfter(t, r))
        => \A o \in RolledBackObjectsAt(r), live \in LiveObjectsAt(Len(history)) :
              LET second == RollbackTo(history, o, t)
                  direct == RollbackTo(history, live, t)
              IN  /\ second.err = NoError
                  /\ direct.err = NoError
                  /\ second.obj.tRollback = t
                  /\ FieldSet(second.obj.fields) = FieldSet(direct.obj.fields)
                  /\ t = r => FieldSet(second.obj.fields) = FieldSet(o.fields)

\* The same on the histories in which no audit took a nil list of old fields
\* for a creation: no entry after the first one holds the creation field.
PathIndependentOnSoundHistory ==
    (\A k \in 2..Len(history) : history[k].fields # CreationFields)
    => C29_RollbackPathIndependent

\* C30: the history is append-only: with any call of Audit or RollbackTo the
\* history before the call is a prefix of the history after it, and
\* RollbackTo, an Audit that fails and an Audit that finds no change leave it
\* as it was.
C30_HistoryAppendOnly ==
    [][/\ Len(history') >= Len(history)
       /\ SubSeq(history', 1, Len(history)) = history
       /\ (\/ last'.op = "RollbackTo"
           \/ last'.op = "Audit" /\ last'.err # NoError
           \/ last'.op = "Audit" /\ ~last'.changed)
          => history' = history]_vars

\* A RollbackTo succeeded on a history as long as the model lets it grow.
C30_Witness ==
    /\ last.op = "RollbackTo"
    /\ last.err = NoError
    /\ Len(history) = MaxHistory
    /\ ~TimeIsZero(obj.tRollback)

\* The signature of the call is not after the latest entry of the history.
StaleSignature ==
    ~TimeAfter(input.sig.timestamp, input.history[Len(input.history)].signature.timestamp)

\* C31: when an Audit on a history that is not empty breaks several
\* preconditions at once, the error is that of the first one in the order
\* missing old object, signature not after the latest entry, old object
\* rolled back, new object: a missing old object is reported whatever the
\* signature; a signature that is not later is reported whatever the objects,
\* GetFields being called on neither (its error does not show); and a rolled
\* back old object is reported before GetFields of the new object is called.
C31_PreconditionOrder ==
    (last.op = "Audit" /\ Len(input.history) > 0)
    => /\ ~input.oldObj.present
          => last.err = "oldObj cannot be nil when there is an audit history. Only allowed on initial audit"
       /\ (input.oldObj.present /\ StaleSignature)
          => last.err = "invalid signature timestamp: must be after latest audit timestamp"
       /\ (/\ input.oldObj.present
           /\ ~StaleSignature
           /\ input.oldObj.getErr = NoError
           /\ ~TimeIsZero(input.oldObj.tRollback))
          => last.err = "cannot audit based on a rolled back object"
       /\ (\/ ~input.oldObj.present
           \/ StaleSignature
           \/ ~TimeIsZero(input.oldObj.tRollback))
          => history = input.history

\* An Audit without old object, with a signature that is not later, of a
\* rolled back new object whose GetFields fails, was refused for the missing
\* old object.
C31_Witness ==
    /\ last.op = "Audit"
    /\ Len(input.history) > 0
    /\ ~input.oldObj.present
    /\ StaleSignature
    /\ input.obj.getErr = ErrGetFields
    /\ ~TimeIsZero(input.obj.tRollback)
    /\ last.err = ErrOldObjNil

\* C32 as claimed: the CREATED marker is in no entry but the first one: an
\* Audit with an old object, also one whose GetFields returns a nil or an
\* empty list of fields, appends no creation entry.
C32_CreationMarkerOnlyFirst ==
    \A k \in 2..Len(history) :
        \A i \in 1..Len(history[k].fields) :
            history[k].fields[i].value # magicValueHistoryCreation

\* The same for the old objects whose GetFields returns a list that is not
\* nil, the empty list included.
CreationMarkerOnlyFirstUnlessNil ==
    (DiffDone /\ ~input.oldFields.isNil) => C32_CreationMarkerOnlyFirst

\* C33 as claimed: on a history built by audits of objects whose fields hold
\* no magic value, RollbackTo passes to SetFields no field whose value is a
\* magic value, CREATED or FIELD_REMOVED.
C33_NoMagicValueToSetFields ==
    (last.op = "RollbackTo" /\ last.setFieldsCalled)
    => \A i \in 1..Len(obj.fields.elems) : obj.fields.elems[i].value.tag # "magic"

\* The same on the histories in which no entry after the first one holds the
\* creation field.
NoMagicValueOnSoundHistory ==
    (\A k \in 2..Len(history) : history[k].fields # CreationFields)
    => C33_NoMagicValueToSetFields

\* ---------------------------------------------------------------------------
\* fieldSlice.Set and fieldSlice.Remove (SpecFieldSlice)
\* ---------------------------------------------------------------------------

\* input holds a field slice with unique names, a name and a value.
InitFieldSlice ==
    /\ history = <<>>
    /\ obj = Object(NilSlice, ZeroTime)
    /\ last = NoCall
    /\ states = <<>>
    /\ audits = 0
    /\ rolledTo = NotRolledTo
    /\ input \in [fields : DiffSlices, name : DiffNames, value : DiffValues]
    /\ output = NoOutput

\* s.Set(name, value)
SetStep ==
    /\ last.op = "none"
    /\ output' = Set(input.fields, input.name, input.value)
    /\ last' = [op |-> "Set", err |-> NoError, changed |-> FALSE, setFieldsCalled |-> FALSE]
    /\ UNCHANGED <<history, obj, states, audits, rolledTo, input>>

\* s.Remove(name)
RemoveStep ==
    /\ last.op = "none"
    /\ output' = Remove(input.fields, input.name)
    /\ last' = [op |-> "Remove", err |-> NoError, changed |-> FALSE, setFieldsCalled |-> FALSE]
    /\ UNCHANGED <<history, obj, states, audits, rolledTo, input>>

NextFieldSlice == SetStep \/ RemoveStep

SpecFieldSlice == InitFieldSlice /\ [][NextFieldSlice]_vars

\* The positions of the slice of input that hold the name of input.
PositionsOfName ==
    {i \in 1..Len(input.fields.elems) : input.fields.elems[i].name = input.name}

\* C34: on a field slice with unique names, Set(name, value) puts the value
\* at the position of the name when the slice holds it and appends the field
\* otherwise; Remove(name) changes nothing when the slice does not hold the
\* name and otherwise drops the named field alone, every other field keeping
\* its value and its position, but for the last field, which takes the
\* position of the removed one; the names stay unique.
C34_SetAndRemove ==
    LET old == input.fields.elems
        new == output.elems
        n == Len(old)
    IN  /\ last.op = "Set"
           => /\ PositionsOfName = {}
                 => new = Append(old, Field(input.name, input.value))
              /\ \A i \in PositionsOfName :
                    /\ Len(new) = n
                    /\ new[i] = Field(input.name, input.value)
                    /\ \A j \in 1..n : j # i => new[j] = old[j]
        /\ last.op = "Remove"
           => /\ PositionsOfName = {} => output = input.fields
              /\ \A i \in PositionsOfName :
                    /\ Len(new) = n - 1
                    /\ {new[j] : j \in 1..(n - 1)} = {old[j] : j \in 1..n} \ {old[i]}
                    /\ \A j \in 1..(n - 1) : j # i => new[j] = old[j]
                    /\ i < n => new[i] = old[n]
        /\ last.op \in {"Set", "Remove"}
           => \A i, j \in 1..Len(new) : i # j => new[i].name # new[j].name

\* The first of three fields was removed: the last one took its position.
C34_Witness ==
    /\ last.op = "Remove"
    /\ Len(input.fields.elems) = 3
    /\ input.fields.elems[1].name = input.name
    /\ output.elems = <<input.fields.elems[3], input.fields.elems[2]>>

\* ---------------------------------------------------------------------------
\* DeserializeFrom into an AuditableValues that holds a history
\* (SpecDecodeInto)
\* ---------------------------------------------------------------------------

\* The stream of DecodeStream for one name, with unixNano as the stored
\* timestamp of the signature, cut after its first length tokens.
StoredStream(version, valueType, unixNano, length) ==
    LET stream == DecodeStream(version, <<"a">>, 0, valueType) IN
    SubSeq([stream EXCEPT ![7] = Token("int64", unixNano)], 1, length)

\* history is that of the receiver, which holds its creation entry; input
\* holds the stream and what it was made of.
InitDecodeInto ==
    /\ history = CreatedHistory
    /\ obj = Object(NilSlice, ZeroTime)
    /\ last = NoCall
    /\ states = <<>>
    /\ audits = 1
    /\ rolledTo = NotRolledTo
    /\ \E version \in 0..2, valueType \in 0..Len(TypeTags),
          unixNano \in (0 - 1)..(MaxUnixNano + 1),
          length \in 0..Len(DecodeStream(1, <<"a">>, 0, 0)) :
          input = [stream |-> StoredStream(version, valueType, unixNano, length),
                   version |-> version, valueType |-> valueType,
                   unixNano |-> unixNano, length |-> length]
    /\ output = NoOutput

NextDecodeInto == DeserializeFromStep

SpecDecodeInto == InitDecodeInto /\ [][NextDecodeInto]_vars

\* C35 as claimed: a Deserialize that returns an error, for a bad version, a
\* cut input, an invalid signature or an unknown type tag, leaves the history
\* of the receiver as it was.
C35_FailedDeserializeKeepsHistory ==
    (last.op = "DeserializeFrom" /\ last.err # NoError) => history = CreatedHistory

\* The part of C35 that the code keeps: an error met before the number of
\* entries is read (a bad version, an input cut inside the name table) leaves
\* the history as it was; one met later leaves a history of one zero entry.
FailedDeserializeKeepsHistoryEarly ==
    (last.op = "DeserializeFrom" /\ last.err # NoError)
    => IF input.version # 1 \/ input.length < 4
       THEN history = CreatedHistory
       ELSE history = <<ZeroEntry>>

\* DeserializeFrom read a whole stream with a good version and type tag: its
\* result hangs on the signature alone, which DeserializeFromBufRW reads.
SignatureDecides ==
    /\ last.op = "DeserializeFrom"
    /\ input.version = 1
    /\ input.valueType <= 11
    /\ input.length = Len(DecodeStream(1, <<"a">>, 0, 0))

\* What deserialization of a signature gives for the stored value unixNano,
\* the largest one left aside when upTo is the end of the allowed range.
StoredTimestampRule(upTo) ==
    (SignatureDecides /\ input.unixNano <= upTo)
    => /\ input.unixNano < 0 => last.err = "invalid unix nano value found"
       /\ input.unixNano = 0
          => last.err = NoError /\ TimeIsZero(history[1].signature.timestamp)
       /\ input.unixNano > 0
          => /\ last.err = NoError
             /\ history[1].signature.timestamp.offset = 0
             /\ history[1].signature.timestamp.at >= UnixEpoch + 1
             /\ history[1].signature.timestamp.at <= UnixEpoch + MaxUnixNano
             /\ SignatureSerialize(history[1].signature).err = NoError

\* C36 as claimed: deserialization of a signature gives the zero timestamp
\* for a stored 0, refuses a negative value with "invalid unix nano value
\* found", and gives for any positive value a UTC instant from
\* 1970-01-01T00:00:00.000000001Z to 2200-01-01T00:00:00Z, so that the
\* signature can be serialized again.
C36_DeserializedTimestampPermitted == StoredTimestampRule(MaxUnixNano + 1)

\* The same for the stored values up to that of 2200-01-01T00:00:00Z.
DeserializedTimestampPermittedUpTo2200 == StoredTimestampRule(MaxUnixNano)

====
